---- MODULE Spec2Model ----
(***************************************************************************)
(* BakeBot agent (bakebot-agent/agent/bakebot_agent.py): the data-channel   *)
(* message handlers, the session state, the conversation history and the    *)
(* voice LLM adapter, as a state machine.                                   *)
(*                                                                          *)
(* Every data_received event spawns one task (asyncio.create_task); a task  *)
(* runs without interruption from one await that really suspends (the       *)
(* generation call, publish_data, voice_assistant.cancel / say) to the next.*)
(* One action of the model is one such uninterrupted run. Calls on the      *)
(* external collaborators and writes of the session config are recorded, in *)
(* program order, in the variable log.                                      *)
(*                                                                          *)
(* Beside the agent: the handlers of the voice assistant's events (latency  *)
(* metrics) and get_performance_stats, cleanup, GoogleAIService's           *)
(* generate_voice_response on strings of tokens, and the two sides of       *)
(* services/speech_service.py: synthesis (GoogleStreamTTS, GoogleTTSStream) *)
(* and recognition (GoogleSTTStream, transcribe_audio_stream), each with a  *)
(* specification of its own.                                                *)
(***************************************************************************)
EXTENDS Naturals, Sequences, FiniteSets

VARIABLES
    started,               \* start() has run (room connected, listener registered)
    participant,           \* self.participant is bound (TRUE) or None (FALSE)
    voice_assistant,       \* self.voice_assistant is set (TRUE) or None (FALSE)
    session_config,        \* None (<<>>) or <<SessionConfig>>
    conversation_history,  \* self.conversation_history
    inbound,               \* the data of the data_received events, in arrival order
    tasks,                 \* one record per data_received event, in arrival order
    log,                   \* external calls and config writes, in program order
    chat_messages,         \* the list handed to BakeBotLLMAdapter.chat
    chat_request,          \* None (<<>>) or <<the generate_voice_response call>>
    speech_start_time,     \* self._speech_start_time: unset (<<>>) or <<time>>
    performance_metrics,   \* self._performance_metrics: one list of samples per name
    warnings,              \* the latency warnings logged so far
    clock,                 \* the last value read from time.time(), in ticks
    voice_events,          \* number of voice assistant events delivered so far
    voice_event,           \* the event whose handler ran last (None: none yet)
    tts_streams,           \* the GoogleTTSStream objects created so far
    synth_calls,           \* the synthesize_speech calls in flight
    reply_text,            \* the reply generate_voice_response got from generation
    voice_response,        \* None (<<>>) or <<what generate_voice_response returned>>
    cleanup,               \* where cleanup() stands: "none", "stop", "done", "raised"
    stats,                 \* None (<<>>) or <<what get_performance_stats returned>>
    stt_session,           \* the GoogleSTTStream: "new", "open", "closing", "closed", "raised"
    stt_pushed,            \* frame.data of the frames handed to push_frame, in order
    requests_queue,        \* GoogleSTTStream._requests_queue
    stt_taken,             \* what _generate_requests has taken from the queue, in order
    stt_stream,            \* the capability's stream: "none", "open", "requests_ended",
                           \* "ended", "failed"
    stt_task,              \* the consumer task: "none", "running", "done", "failed"
    stt_responses,         \* the responses _process_responses has read, in order
    stt_queue,             \* GoogleSTTStream._queue: the events surfaced to the caller
    transcript             \* None (<<>>) or <<what transcribe_audio_stream returned>>

vars == <<started, participant, voice_assistant, session_config,
          conversation_history, inbound, tasks, log, chat_messages, chat_request,
          speech_start_time, performance_metrics, warnings, clock, voice_events,
          voice_event, tts_streams, synth_calls, reply_text, voice_response,
          cleanup, stats, stt_session, stt_pushed, requests_queue, stt_taken,
          stt_stream, stt_task, stt_responses, stt_queue, transcript>>

agentVars == <<started, participant, voice_assistant, session_config,
               conversation_history, inbound, tasks, log>>

adapterVars == <<chat_messages, chat_request>>

telemetryVars == <<speech_start_time, performance_metrics, warnings, clock,
                   voice_events, voice_event>>

synthesisVars == <<tts_streams, synth_calls>>

replyVars == <<reply_text, voice_response>>

teardownVars == <<cleanup>>

\* What neither a handler nor the speech and generation services touch.
statsVars == <<stats>>

recognitionVars == <<stt_session, stt_pushed, requests_queue, stt_taken,
                     stt_stream, stt_task, stt_responses, stt_queue, transcript>>

otherVars == <<teardownVars, statsVars, recognitionVars>>

\* Everything the handlers of the messages and of the voice events leave alone.
serviceVars == <<adapterVars, synthesisVars, replyVars, otherVars>>

----------------------------------------------------------------------------
(* Bounds *)

\* Number of data_received events in one run.
MaxMessages == 2

\* Longest message list handed to the LLM adapter.
MaxChatLen == 3

\* Number of voice assistant events delivered in one run.
MaxVoiceEvents == 2

\* time.time() is read in ticks of TickMs milliseconds, up to MaxClock ticks.
TickMs == 250

MaxClock == 3

\* A reply handed to generate_voice_response is made of at most MaxPieces
\* pieces; a long run of characters in it has BlockLen characters.
MaxPieces == 6

BlockLen == 247

\* Number of synthesis streams opened in one run, and of text segments pushed
\* to them in all.
MaxStreams == 2

MaxSegments == 3

\* Number of samples a latency metric holds when the events of a run begin.
MaxSamples == 1

\* Number of frames pushed to a recognition session, and of responses the
\* recognition capability returns in one session or call.
MaxChunks == 2

MaxResponses == 2

----------------------------------------------------------------------------
(* Values *)

None == "None"

\* models/schemas.py: MessageType, SessionType
MessageType == {"text", "image", "control"}

SessionType == {"text", "voice-ptt", "voice-vad"}

VoiceSessionTypes == {"voice-ptt", "voice-vad"}

\* google_ai_service.py: the fixed strings returned when the capability fails
TextFallback == "I'm having trouble thinking right now. Could you try asking me again?"

ImageFallback == "I can see an image, but I'm having trouble analyzing it right now. Can you describe what you'd like to know about it?"

\* What the external generation capability may answer.
Replies == {"reply"}

\* dict.get(key, default) on a payload whose keys are optional
Get(payload, key, default) ==
    IF key \in DOMAIN payload THEN payload[key] ELSE default

\* Python truthiness of a string
Truthy(s) == s # "" /\ s # None

----------------------------------------------------------------------------
(* Inbound messages (the decoded DataChannelMessage) *)

TextPayloads == {[content |-> "How long to boil an egg?"]}

ImagePayloads ==
    {[data |-> "iVBORw0KGgo="],
     [data |-> "iVBORw0KGgo=", caption |-> "Is this done cooking?"]}

StartPayloads ==
    {[action |-> "start_session"],
     [action |-> "start_session", session_type |-> "voice-vad",
      voice_mode |-> "vad", user_id |-> "u1", turn_detection |-> "server"],
     [action |-> "start_session", session_type |-> "voice-ptt", user_id |-> "u2"],
     [action |-> "start_session", session_type |-> "text",
      turn_detection |-> "client"]}

\* Control payloads the handler has no branch for (no action, an unknown
\* action), and a start_session whose session_type SessionType() rejects.
MalformedControlPayloads ==
    {[user_id |-> "u1"],
     [action |-> "pause"],
     [action |-> "start_session", session_type |-> "voice", user_id |-> "u3"]}

ControlPayloads ==
    StartPayloads \cup {[action |-> "end_session"], [action |-> "interrupt"]}
    \cup MalformedControlPayloads

\* The timestamp and the message_id the client puts on what it sends (the
\* agent does not require them to differ from message to message).
ClientTimestamp == <<"client", "t">>

ClientMessageId == <<"client", "id">>

\* DataChannelMessage(type, payload, timestamp, message_id)
DataChannelMessage(type, payload) ==
    [type |-> type, payload |-> payload, timestamp |-> ClientTimestamp,
     message_id |-> ClientMessageId]

InboundMessages ==
    {DataChannelMessage("text", p) : p \in TextPayloads}
    \cup {DataChannelMessage("image", p) : p \in ImagePayloads}
    \cup {DataChannelMessage("control", p) : p \in ControlPayloads}

----------------------------------------------------------------------------
(* Inbound data (the bytes handed to on_data_received) and their decoding *)

\* The fields of DataChannelMessage; none has a default.
EnvelopeFields == {"type", "payload", "timestamp", "message_id"}

\* json.dumps(message): bytes that json.loads turns into the document doc.
JsonDumps(doc) == [well_formed |-> TRUE, doc |-> doc]

\* Bytes json.loads raises on.
NotJson == [well_formed |-> FALSE, doc |-> <<>>]

Without(doc, field) == [k \in DOMAIN doc \ {field} |-> doc[k]]

\* Documents DataChannelMessage(**message_dict) raises on: one field is
\* missing, or the type is not a MessageType.
InvalidDocuments ==
    LET doc == DataChannelMessage("text", [content |-> "How long to boil an egg?"])
    IN  {Without(doc, field) : field \in EnvelopeFields}
        \cup {[doc EXCEPT !.type = "audio"]}

InboundData ==
    {JsonDumps(m) : m \in InboundMessages}
    \cup {JsonDumps(doc) : doc \in InvalidDocuments}
    \cup {NotJson}

\* A decode that checks the type only: a missing payload, timestamp or
\* message_id is not noticed.
DecodeTypeOnly(data) ==
    IF /\ data.well_formed
       /\ "type" \in DOMAIN data.doc
       /\ data.doc.type \in MessageType
    THEN <<[type |-> data.doc.type,
            payload |-> IF "payload" \in DOMAIN data.doc THEN data.doc.payload
                        ELSE <<>>,
            timestamp |-> ClientTimestamp,
            message_id |-> ClientMessageId]>>
    ELSE <<>>

\* lines 224-225: json.loads and DataChannelMessage(**message_dict). The
\* message (<<message>>), or None (<<>>) when either raises.
Decode(data) ==
    IF /\ data.well_formed
       /\ EnvelopeFields \subseteq DOMAIN data.doc
       /\ data.doc.type \in MessageType
    THEN <<[type |-> data.doc.type, payload |-> data.doc.payload,
            timestamp |-> data.doc.timestamp,
            message_id |-> data.doc.message_id]>>
    ELSE <<>>

----------------------------------------------------------------------------
(* Records *)

\* One entry of conversation_history. msg is the arrival number of the inbound
\* message the turn belongs to (the turn's identity; the code stores a timestamp).
Turn(sender, content, i) == [sender |-> sender, content |-> content, msg |-> i]

\* One entry of log: an external call or a config write made for message i
\* (0: made by start).
Event(ev, i, type, payload) ==
    [ev |-> ev, msg |-> i, type |-> type, payload |-> payload]

\* A task as spawned by on_data_received for `message`.
\* handler: the handler the message was passed to.
NewTask(message) ==
    [message |-> message, handler |-> None, pc |-> "recv",
     response_text |-> None, gen_history |-> <<>>, exc |-> "none"]

\* What stands for the message in the task of data that did not decode.
NoMessage == [type |-> None, payload |-> <<>>]

IsNone(opt) == opt = <<>>

Some(v) == <<v>>

AllButLast(s) == SubSeq(s, 1, Len(s) - 1)

----------------------------------------------------------------------------
(* _send_message *)

\* `payload or {"content": content}`
SendPayload(content, payload) ==
    IF payload # <<>> THEN payload ELSE [content |-> content]

\* An id made once and put on every envelope (as current_session_id is made
\* once in __init__, line 43).
Uuid4Once == <<"uuid4", 0>>

\* `str(uuid.uuid4())`, line 419: an id no earlier call has returned and no
\* client has chosen. It is named by the number of envelopes built before it.
Uuid4 ==
    <<"uuid4", Cardinality({p \in 1..Len(log) : log[p].ev = "publish_data"}) + 1>>

\* `datetime.now().timestamp()`, line 418: a reading of the agent's own clock
\* (its value is not followed).
Now == <<"agent", "now">>

\* The envelope handed to publish_data for message i (lines 415-424).
Envelope(i, content, message_type, payload) ==
    [ev |-> "publish_data", msg |-> i, type |-> message_type,
     payload |-> SendPayload(content, payload),
     timestamp |-> Now, message_id |-> Uuid4]

\* A _send_message without the test of lines 411-412: it publishes whether or
\* not a participant is bound.
SendPublishesUnbound == TRUE

\* Whether _send_message reaches publish_data (it returns at once when no
\* participant is bound).
SendPublishes == participant

----------------------------------------------------------------------------
(* _handle_data_message: the except clause around the three handlers *)

\* An except clause that lets the exception leave _handle_data_message (and the
\* task die with it).
ExceptOutcomeEscapes == "escaped"

\* What happens to an exception raised by a handler: it is caught and logged.
ExceptOutcome == "caught"

Raise(t) == [t EXCEPT !.pc = "done", !.exc = ExceptOutcome]

Return(t) == [t EXCEPT !.pc = "done"]

----------------------------------------------------------------------------
(* _handle_text_message, after the send: speak the reply in a voice session *)

SpeaksReply ==
    /\ voice_assistant
    /\ ~IsNone(session_config)
    /\ session_config[1].session_type \in VoiceSessionTypes

\* The rest of handler i once _send_message has returned: the task and the log.
AfterSend(i, t, lg) ==
    IF t.message.type = "text" /\ SpeaksReply
    THEN [task |-> [t EXCEPT !.pc = "say"],
          log |-> Append(lg, Event("say", i, "text", [content |-> t.response_text]))]
    ELSE [task |-> Return(t), log |-> lg]

\* A handler that takes the decision of lines 273-276 before the send: the
\* reply is handed to say() under the config that is live when generation
\* returns, and published after that.
SendSpeaksFirst(i, t, lg, content, message_type, payload) ==
    IF SendPublishes
    THEN [task |-> [t EXCEPT !.pc = "send"],
          log |-> Append(AfterSend(i, t, lg).log,
                         Envelope(i, content, message_type, payload))]
    ELSE AfterSend(i, t, lg)

\* `await self._send_message(...)` made by handler i.
Send(i, t, lg, content, message_type, payload) ==
    IF SendPublishes
    THEN [task |-> [t EXCEPT !.pc = "send"],
          log |-> Append(lg, Envelope(i, content, message_type, payload))]
    ELSE AfterSend(i, t, lg)

----------------------------------------------------------------------------
(* start: _setup_voice_assistant, _setup_data_channel, _connect_to_participant *)

WelcomeText == "Hi! I'm BakeBot, your virtual sous chef! How can I help you in the kitchen today?"

\* remote: whether room.remote_participants holds a participant at that moment.
\* The listener is registered before the welcome message is published, so
\* messages are handled from here on; the participant is never bound again.
Start(remote) ==
    /\ ~started
    /\ started' = TRUE
    /\ voice_assistant' = TRUE
    /\ participant' = remote
    /\ log' = IF remote
              THEN Append(log, Envelope(0, WelcomeText, "text", <<>>))
              ELSE log
    /\ UNCHANGED <<session_config, conversation_history, inbound, tasks,
                   telemetryVars, serviceVars>>

----------------------------------------------------------------------------
(* on_data_received -> _handle_data_message: the handler's run up to its   *)
(* first suspension. Tasks start in the order they were created, so this    *)
(* run is taken in arrival order.                                           *)

CanReceive == started /\ Len(tasks) < MaxMessages

\* lines 224-225 raise: the except clause of line 238 logs, the data is dropped.
ReceiveUndecodable(data) ==
    /\ CanReceive
    /\ IsNone(Decode(data))
    /\ inbound' = Append(inbound, data)
    /\ tasks' = Append(tasks, Raise(NewTask(NoMessage)))
    /\ UNCHANGED <<started, participant, voice_assistant, session_config,
                   conversation_history, log, telemetryVars, serviceVars>>

\* The data decodes; the message it decodes to.
Decodes(data) == ~IsNone(Decode(data))

Message(data) == Decode(data)[1]

\* `f"[Image] {caption}" if caption else "[Image]"`
ImageContent(caption) ==
    IF ~Truthy(caption) THEN "[Image]"
    ELSE IF caption = "Is this done cooking?" THEN "[Image] Is this done cooking?"
    ELSE "[Image] ..."

\* _handle_text_message without the append of the user turn (lines 248-252 left
\* out): the request is generated, the history gets only the reply.
HandleTextMessageNoUserTurn(message) ==
    LET t == [NewTask(message) EXCEPT !.handler = "_handle_text_message"]
        content == Get(message.payload, "content", "")
    IN  IF ~Truthy(content)
        THEN /\ tasks' = Append(tasks, Return(t))
             /\ UNCHANGED conversation_history
        ELSE /\ UNCHANGED conversation_history
             /\ tasks' = Append(tasks, [t EXCEPT !.pc = "gen",
                                           !.gen_history = conversation_history])

\* _handle_text_message, lines 243-257
HandleTextMessage(message) ==
    LET i == Len(tasks) + 1
        t == [NewTask(message) EXCEPT !.handler = "_handle_text_message"]
        content == Get(message.payload, "content", "")
        appended == Append(conversation_history, Turn("user", content, i))
    IN  IF ~Truthy(content)
        THEN /\ tasks' = Append(tasks, Return(t))
             /\ UNCHANGED conversation_history
        ELSE /\ conversation_history' = appended
             /\ tasks' = Append(tasks, [t EXCEPT !.pc = "gen",
                                           !.gen_history = AllButLast(appended)])

ReceiveText(message) ==
    /\ CanReceive
    /\ message.type = "text"
    /\ HandleTextMessage(message)
    /\ UNCHANGED <<started, participant, voice_assistant, session_config, log,
                   telemetryVars, serviceVars>>

\* _handle_image_message without the test of lines 283-284: an image message
\* is analyzed whether or not it carries data.
HandleImageMessageUnchecked(message) ==
    LET i == Len(tasks) + 1
        t == [NewTask(message) EXCEPT !.handler = "_handle_image_message"]
        caption == Get(message.payload, "caption", "")
    IN  /\ conversation_history' =
               Append(conversation_history, Turn("user", ImageContent(caption), i))
        /\ tasks' = Append(tasks, [t EXCEPT !.pc = "gen"])

\* _handle_image_message, lines 280-296
HandleImageMessage(message) ==
    LET i == Len(tasks) + 1
        t == [NewTask(message) EXCEPT !.handler = "_handle_image_message"]
        image_data == Get(message.payload, "data", "")
        caption == Get(message.payload, "caption", "")
    IN  IF ~Truthy(image_data)
        THEN /\ tasks' = Append(tasks, Return(t))
             /\ UNCHANGED conversation_history
        ELSE /\ conversation_history' =
                    Append(conversation_history, Turn("user", ImageContent(caption), i))
             /\ tasks' = Append(tasks, [t EXCEPT !.pc = "gen"])

ReceiveImage(message) ==
    /\ CanReceive
    /\ message.type = "image"
    /\ HandleImageMessage(message)
    /\ UNCHANGED <<started, participant, voice_assistant, session_config, log,
                   telemetryVars, serviceVars>>

----------------------------------------------------------------------------
(* _handle_control_message *)

\* A start_session that updates the live config instead of replacing it: a
\* field the payload does not supply keeps the value of the previous session.
MergeSessionConfig(payload) ==
    LET old == IF IsNone(session_config)
               THEN [session_type |-> "text", voice_mode |-> None,
                     user_id |-> "unknown", turn_detection |-> "auto"]
               ELSE session_config[1]
    IN  [session_type |-> Get(payload, "session_type", old.session_type),
         voice_mode |-> Get(payload, "voice_mode", old.voice_mode),
         user_id |-> Get(payload, "user_id", old.user_id),
         turn_detection |-> Get(payload, "turn_detection", old.turn_detection)]

\* SessionConfig(...) of lines 316-324
BuildSessionConfig(payload) ==
    [session_type |-> Get(payload, "session_type", "text"),
     voice_mode |-> Get(payload, "voice_mode", None),
     user_id |-> Get(payload, "user_id", "unknown"),
     turn_detection |-> Get(payload, "turn_detection", "auto")]

\* lines 329-332 and _reconfigure_voice_assistant
Reconfigures(config) ==
    voice_assistant /\ config.session_type \in VoiceSessionTypes

StartedAck == [status |-> "session_started"]

EndedAck == [status |-> "session_ended"]

\* start_session without lines 329-332: the voice assistant is not reconfigured
\* before the acknowledgment.
StartSessionEffectsNoReconfigure(i, config) ==
    <<Event("session_config", i, config.session_type, <<>>)>>

\* The effects of start_session for message i, in program order.
StartSessionEffects(i, config) ==
    <<Event("session_config", i, config.session_type, <<>>)>>
    \o (IF Reconfigures(config)
        THEN <<Event("reconfigure", i, config.session_type, <<>>)>>
        ELSE <<>>)

\* A start_session that stores the session type as it came, without the
\* SessionType(...) conversion of line 320.
StartSessionUnvalidated(i, t) ==
    LET config == BuildSessionConfig(t.message.payload)
        sent == Send(i, t, log \o StartSessionEffects(i, config),
                     "Session started! I'm ready to help.", "control", StartedAck)
    IN  /\ session_config' = Some(config)
        /\ tasks' = Append(tasks, sent.task)
        /\ log' = sent.log

\* lines 315-339
StartSession(i, t) ==
    LET payload == t.message.payload
        config == BuildSessionConfig(payload)
        sent == Send(i, t, log \o StartSessionEffects(i, config),
                     "Session started! I'm ready to help.", "control", StartedAck)
    IN  IF Get(payload, "session_type", "text") \notin SessionType
        THEN \* SessionType(session_type) raises ValueError
             /\ tasks' = Append(tasks, Raise(t))
             /\ UNCHANGED <<session_config, log>>
        ELSE /\ session_config' = Some(config)
             /\ tasks' = Append(tasks, sent.task)
             /\ log' = sent.log

\* The acknowledgment of end_session, lines 353-358
SendEndedAck(i, t, lg) ==
    Send(i, t, lg, "Session ended. Feel free to start a new one anytime!",
         "control", EndedAck)

\* lines 341-358, up to the await of cancel (or of the send)
EndSession(i, t) ==
    LET cleared == Append(log, Event("session_config", i, None, <<>>))
        sent == SendEndedAck(i, t, cleared)
    IN  /\ session_config' = <<>>
        /\ IF voice_assistant
           THEN /\ tasks' = Append(tasks, [t EXCEPT !.pc = "cancel"])
                /\ log' = Append(cleared, Event("cancel", i, None, <<>>))
           ELSE /\ tasks' = Append(tasks, sent.task)
                /\ log' = sent.log

\* Whether the interrupt action calls voice_assistant.cancel(), line 362
InterruptCancels == voice_assistant

\* An interrupt that also ends the session: the config is cleared as in
\* end_session (line 342) before the cancel.
InterruptEndsSession(i, t) ==
    /\ IF InterruptCancels
       THEN /\ tasks' = Append(tasks, [t EXCEPT !.pc = "cancel"])
            /\ log' = Append(log, Event("cancel", i, None, <<>>))
       ELSE /\ tasks' = Append(tasks, Return(t))
            /\ UNCHANGED log
    /\ session_config' = <<>>

\* lines 360-368, up to the await of cancel
Interrupt(i, t) ==
    /\ IF InterruptCancels
       THEN /\ tasks' = Append(tasks, [t EXCEPT !.pc = "cancel"])
            /\ log' = Append(log, Event("cancel", i, None, <<>>))
       ELSE /\ tasks' = Append(tasks, Return(t))
            /\ UNCHANGED log
    /\ UNCHANGED session_config

HandleControlMessage(message) ==
    LET i == Len(tasks) + 1
        t == [NewTask(message) EXCEPT !.handler = "_handle_control_message"]
        action == Get(message.payload, "action", None)
    IN  CASE action = "start_session" -> StartSession(i, t)
          [] action = "end_session" -> EndSession(i, t)
          [] action = "interrupt" -> Interrupt(i, t)
          [] OTHER -> /\ tasks' = Append(tasks, Return(t))
                      /\ UNCHANGED <<session_config, log>>

ReceiveControl(message) ==
    /\ CanReceive
    /\ message.type = "control"
    /\ HandleControlMessage(message)
    /\ UNCHANGED <<started, participant, voice_assistant, conversation_history,
                   telemetryVars, serviceVars>>

----------------------------------------------------------------------------
(* The awaited calls return *)

\* What the generation capability does with a request: an answer, or a failure.
GenOutcomes ==
    {[ok |-> TRUE, text |-> r] : r \in Replies} \cup {[ok |-> FALSE, text |-> None]}

\* generate_text_response without its except clause: a failure of the capability
\* yields no reply text.
GenerateTextResponseNoFallback(outcome) == outcome.text

\* GoogleAIService.generate_text_response: the except clause returns the fallback
GenerateTextResponse(outcome) ==
    IF outcome.ok THEN outcome.text ELSE TextFallback

\* GoogleAIService.analyze_image: the except clause returns the fallback
AnalyzeImage(outcome) ==
    IF outcome.ok THEN outcome.text ELSE ImageFallback

\* _handle_text_message lines 259-270 / _handle_image_message lines 298-309:
\* the generation call of task i returns
GenDone(i, outcome) ==
    /\ i \in 1..Len(tasks)
    /\ tasks[i].pc = "gen"
    /\ LET response_text == IF tasks[i].message.type = "text"
                            THEN GenerateTextResponse(outcome)
                            ELSE AnalyzeImage(outcome)
           t == [tasks[i] EXCEPT !.response_text = response_text]
           sent == Send(i, t, log, response_text, "text", <<>>)
       IN  /\ conversation_history' =
                  Append(conversation_history, Turn("agent", response_text, i))
           /\ tasks' = [tasks EXCEPT ![i] = sent.task]
           /\ log' = sent.log
    /\ UNCHANGED <<started, participant, voice_assistant, session_config,
                   inbound, telemetryVars, serviceVars>>

\* A _send_message that catches the error of publish_data itself: the handler
\* goes on after the failed send and speaks the reply in a voice session.
PublishDoneSpeaksAnyway(i, ok) ==
    /\ i \in 1..Len(tasks)
    /\ tasks[i].pc = "send"
    /\ LET t == IF ok THEN tasks[i] ELSE [tasks[i] EXCEPT !.exc = ExceptOutcome]
           after == AfterSend(i, t, log)
       IN  /\ tasks' = [tasks EXCEPT ![i] = after.task]
           /\ log' = after.log
    /\ UNCHANGED <<started, participant, voice_assistant, session_config,
                   conversation_history, inbound, telemetryVars, serviceVars>>

\* publish_data of task i returns (ok) or raises
PublishDone(i, ok) ==
    /\ i \in 1..Len(tasks)
    /\ tasks[i].pc = "send"
    /\ LET after == AfterSend(i, tasks[i], log)
       IN  IF ok
           THEN /\ tasks' = [tasks EXCEPT ![i] = after.task]
                /\ log' = after.log
           ELSE /\ tasks' = [tasks EXCEPT ![i] = Raise(tasks[i])]
                /\ UNCHANGED log
    /\ UNCHANGED <<started, participant, voice_assistant, session_config,
                   conversation_history, inbound, telemetryVars, serviceVars>>

\* An end_session whose try around cancel() catches nothing: a failing cancel
\* ends the handler before the acknowledgment.
AfterCancelPropagates(i, t, lg, ok) ==
    IF ~ok THEN [task |-> Raise(t), log |-> lg]
    ELSE IF t.message.payload.action = "end_session"
    THEN SendEndedAck(i, t, lg)
    ELSE [task |-> Return(t), log |-> lg]

\* The rest of handler i once `await self.voice_assistant.cancel()` has returned
\* (ok) or raised: end_session ignores the error (lines 348-351, bare except:
\* pass) and goes on to its acknowledgment; interrupt logs it (lines 363-368)
\* and returns.
AfterCancel(i, t, lg, ok) ==
    IF t.message.payload.action = "end_session"
    THEN SendEndedAck(i, t, lg)
    ELSE [task |-> Return(t),
          log |-> IF ok THEN lg
                  ELSE Append(lg, Event("logger.error", i, None, <<>>))]

\* voice_assistant.cancel() of task i returns (ok) or raises
CancelDone(i, ok) ==
    /\ i \in 1..Len(tasks)
    /\ tasks[i].pc = "cancel"
    /\ LET after == AfterCancel(i, tasks[i], log, ok)
       IN  /\ tasks' = [tasks EXCEPT ![i] = after.task]
           /\ log' = after.log
    /\ UNCHANGED <<started, participant, voice_assistant, session_config,
                   conversation_history, inbound, telemetryVars, serviceVars>>

\* voice_assistant.say(response_text) of task i returns (ok) or raises
SayDone(i, ok) ==
    /\ i \in 1..Len(tasks)
    /\ tasks[i].pc = "say"
    /\ tasks' = [tasks EXCEPT ![i] = IF ok THEN Return(@) ELSE Raise(@)]
    /\ UNCHANGED <<started, participant, voice_assistant, session_config,
                   conversation_history, log, inbound, telemetryVars, serviceVars>>

----------------------------------------------------------------------------
(* cleanup (called from the finally clause of job_request_cb, main.py line 45) *)
(* self.data_channel is None from __init__ on (nothing assigns it), so lines   *)
(* 95-96 never run; the step that can be observed is the clear of the history. *)

\* lines 88-101, up to `await self.voice_assistant.stop()`, or to the end when
\* there is no voice assistant. The job may end at any moment.
Cleanup ==
    /\ cleanup = "none"
    /\ IF voice_assistant
       THEN /\ cleanup' = "stop"
            /\ UNCHANGED conversation_history
       ELSE /\ cleanup' = "done"
            /\ conversation_history' = <<>>
    /\ UNCHANGED <<started, participant, voice_assistant, session_config, inbound,
                   tasks, log, telemetryVars, adapterVars, synthesisVars, replyVars,
                   statsVars, recognitionVars>>

\* A cleanup that also ends the session: once stop() has returned, the session
\* config is reset with the history.
StopDoneResetsSession(ok) ==
    /\ cleanup = "stop"
    /\ IF ok
       THEN /\ cleanup' = "done"
            /\ conversation_history' = <<>>
            /\ session_config' = <<>>
       ELSE /\ cleanup' = "raised"
            /\ UNCHANGED <<conversation_history, session_config>>
    /\ UNCHANGED <<started, participant, voice_assistant, inbound, tasks, log,
                   telemetryVars, adapterVars, synthesisVars, replyVars,
                   statsVars, recognitionVars>>

\* voice_assistant.stop() returns (ok) or raises: nothing catches the exception,
\* it leaves cleanup before lines 95-99.
StopDone(ok) ==
    /\ cleanup = "stop"
    /\ IF ok
       THEN /\ cleanup' = "done"
            /\ conversation_history' = <<>>
       ELSE /\ cleanup' = "raised"
            /\ UNCHANGED conversation_history
    /\ UNCHANGED <<started, participant, voice_assistant, session_config, inbound,
                   tasks, log, telemetryVars, adapterVars, synthesisVars, replyVars,
                   statsVars, recognitionVars>>

----------------------------------------------------------------------------
(* _setup_voice_assistant_events: the handlers of the voice assistant's      *)
(* events. They are plain callbacks: each runs to its end in one step.       *)

MetricNames == {"stt_latency", "tts_latency", "llm_latency", "total_roundtrip"}

\* line 188: `if total_latency > 500`
LatencyTargetMs == 500

\* The test of line 188 with the target itself counted as exceeded.
LatencyTargetReached(total_latency) == total_latency >= LatencyTargetMs

LatencyTargetExceeded(total_latency) == total_latency > LatencyTargetMs

\* The handlers are registered by start (line 142) on the voice assistant.
CanDeliver == started /\ voice_assistant /\ voice_events < MaxVoiceEvents

\* What time.time() may return next: time does not run backwards.
Times == clock..MaxClock

\* `hasattr(self, "_speech_start_time")`
HasSpeechStart == ~IsNone(speech_start_time)

\* `(time.time() - self._speech_start_time) * 1000`
LatencyMs(now) == (now - speech_start_time[1]) * TickMs

\* lines 156-160
OnUserStartedSpeaking(now) ==
    /\ CanDeliver
    /\ voice_events' = voice_events + 1
    /\ voice_event' = "user_started_speaking"
    /\ clock' = now
    /\ speech_start_time' = Some(now)
    /\ UNCHANGED <<performance_metrics, warnings, agentVars, serviceVars>>

\* lines 162-164
OnUserStoppedSpeaking ==
    /\ CanDeliver
    /\ voice_events' = voice_events + 1
    /\ voice_event' = "user_stopped_speaking"
    /\ UNCHANGED <<speech_start_time, performance_metrics, warnings, clock,
                   agentVars, serviceVars>>

\* The handler without the hasattr test of line 170: a turn start that is
\* missing is read as time zero.
OnAgentStartedSpeakingUnguarded(now) ==
    /\ CanDeliver
    /\ voice_events' = voice_events + 1
    /\ voice_event' = "agent_started_speaking"
    /\ clock' = now
    /\ performance_metrics' =
           [performance_metrics EXCEPT
               !.stt_latency =
                   Append(@, IF HasSpeechStart THEN LatencyMs(now) ELSE now * TickMs)]
    /\ UNCHANGED <<speech_start_time, warnings, agentVars, serviceVars>>

\* lines 166-173
OnAgentStartedSpeaking(now) ==
    /\ CanDeliver
    /\ voice_events' = voice_events + 1
    /\ voice_event' = "agent_started_speaking"
    /\ IF HasSpeechStart
       THEN /\ clock' = now
            /\ performance_metrics' =
                   [performance_metrics EXCEPT
                       !.stt_latency = Append(@, LatencyMs(now))]
       ELSE UNCHANGED <<clock, performance_metrics>>
    /\ UNCHANGED <<speech_start_time, warnings, agentVars, serviceVars>>

\* lines 175-189
OnAgentStoppedSpeaking(now) ==
    /\ CanDeliver
    /\ voice_events' = voice_events + 1
    /\ voice_event' = "agent_stopped_speaking"
    /\ IF HasSpeechStart
       THEN LET total_latency == LatencyMs(now)
            IN  /\ clock' = now
                /\ performance_metrics' =
                       [performance_metrics EXCEPT
                           !.total_roundtrip = Append(@, total_latency)]
                /\ warnings' = IF LatencyTargetExceeded(total_latency)
                               THEN Append(warnings, total_latency)
                               ELSE warnings
       ELSE UNCHANGED <<clock, performance_metrics, warnings>>
    /\ UNCHANGED <<speech_start_time, agentVars, serviceVars>>

\* lines 191-193
OnSpeechInterrupted ==
    /\ CanDeliver
    /\ voice_events' = voice_events + 1
    /\ voice_event' = "speech_interrupted"
    /\ UNCHANGED <<speech_start_time, performance_metrics, warnings, clock,
                   agentVars, serviceVars>>

VoiceEvent ==
    \/ \E now \in Times : OnUserStartedSpeaking(now)
    \/ OnUserStoppedSpeaking
    \/ \E now \in Times : OnAgentStartedSpeaking(now)
    \/ \E now \in Times : OnAgentStoppedSpeaking(now)
    \/ OnSpeechInterrupted

----------------------------------------------------------------------------
(* get_performance_stats *)

\* sum(values)
RECURSIVE Sum(_)
Sum(values) ==
    IF values = <<>> THEN 0 ELSE Head(values) + Sum(Tail(values))

\* min(values) and max(values) of a list that is not empty
RECURSIVE Min(_)
Min(values) ==
    IF Len(values) = 1 THEN Head(values)
    ELSE LET rest == Min(Tail(values))
         IN  IF Head(values) < rest THEN Head(values) ELSE rest

RECURSIVE Max(_)
Max(values) ==
    IF Len(values) = 1 THEN Head(values)
    ELSE LET rest == Max(Tail(values))
         IN  IF Head(values) > rest THEN Head(values) ELSE rest

\* The float num / den, kept as the fraction it is.
Quotient(num, den) == [num |-> num, den |-> den]

\* Statistics over the most recent sample only.
MetricStatsOfLast(values) ==
    IF values # <<>>
    THEN [avg |-> Quotient(values[Len(values)], 1), min |-> values[Len(values)],
          max |-> values[Len(values)], count |-> Len(values)]
    ELSE [avg |-> Quotient(0, 1), min |-> 0, max |-> 0, count |-> 0]

\* lines 396-405: the four entries of one metric
MetricStats(values) ==
    IF values # <<>>
    THEN [avg |-> Quotient(Sum(values), Len(values)), min |-> Min(values),
          max |-> Max(values), count |-> Len(values)]
    ELSE [avg |-> Quotient(0, 1), min |-> 0, max |-> 0, count |-> 0]

\* The dict get_performance_stats returns: entry f"{metric_name}_{field}" is
\* [metric_name][field] here.
PerformanceStats ==
    [metric_name \in DOMAIN performance_metrics |->
        MetricStats(performance_metrics[metric_name])]

\* lines 391-407; one call is followed.
GetPerformanceStats ==
    /\ IsNone(stats)
    /\ stats' = Some(PerformanceStats)
    /\ UNCHANGED <<agentVars, telemetryVars, adapterVars, synthesisVars, replyVars,
                   teardownVars, recognitionVars>>

----------------------------------------------------------------------------
(* GoogleAIService.generate_voice_response                                   *)
(* A string is a sequence of tokens: "." and " " are the two characters of   *)
(* the delimiter, every other token is a run of characters that are neither  *)
(* ("x": one character, "X": BlockLen characters, "W": the question the      *)
(* function appends).                                                        *)

\* line 101: `if len(voice_response) > 500`
VoiceMaxChars == 500

\* line 104: `if len(sentences) > 3`, line 105: `sentences[:3]`
VoiceMaxSentences == 3

TokenLen(tok) ==
    CASE tok = "X" -> BlockLen
      [] tok = "W" -> Len("Would you like me to continue with more details?")
      [] OTHER -> 1

\* len(s)
RECURSIVE StrLen(_)
StrLen(s) == IF s = <<>> THEN 0 ELSE TokenLen(Head(s)) + StrLen(Tail(s))

\* line 105: the literal appended to a shortened reply
ContinueSuffix == <<".", " ", "W">>

\* s.split(". "), scanning from token k on: cur is the segment being read,
\* segments the ones already closed.
RECURSIVE SplitFrom(_, _, _, _)
SplitFrom(s, k, cur, segments) ==
    IF k > Len(s) THEN Append(segments, cur)
    ELSE IF s[k] = "." /\ k < Len(s) /\ s[k + 1] = " "
    THEN SplitFrom(s, k + 2, <<>>, Append(segments, cur))
    ELSE SplitFrom(s, k + 1, Append(cur, s[k]), segments)

Split(s) == SplitFrom(s, 1, <<>>, <<>>)

\* ". ".join(segments)
RECURSIVE Join(_)
Join(segments) ==
    IF segments = <<>> THEN <<>>
    ELSE IF Len(segments) = 1 THEN segments[1]
    ELSE segments[1] \o <<".", " ">> \o Join(Tail(segments))

\* A length test that also takes a reply of exactly VoiceMaxChars characters
\* for too long.
TooLongInclusive(s) == StrLen(s) >= VoiceMaxChars

\* line 101
TooLong(s) == StrLen(s) > VoiceMaxChars

\* lines 98-107: what is returned for the generated reply text_response
VoiceResponse(text_response) ==
    LET sentences == Split(text_response)
    IN  IF TooLong(text_response) /\ Len(sentences) > VoiceMaxSentences
        THEN Join(SubSeq(sentences, 1, VoiceMaxSentences)) \o ContinueSuffix
        ELSE text_response

\* The replies generation may return: any sequence of at most MaxPieces
\* pieces, a piece being one character, a long run, a "." or the delimiter.
Pieces == {<<"x">>, <<"X">>, <<".">>, <<".", " ">>}

RECURSIVE Flatten(_)
Flatten(pieces) ==
    IF pieces = <<>> THEN <<>> ELSE Head(pieces) \o Flatten(Tail(pieces))

ReplyTexts ==
    {Flatten(pieces) : pieces \in UNION {[1..n -> Pieces] : n \in 0..MaxPieces}}

\* lines 90-107
GenerateVoiceResponse ==
    /\ IsNone(voice_response)
    /\ voice_response' = Some(VoiceResponse(reply_text))
    /\ UNCHANGED <<agentVars, telemetryVars, adapterVars, synthesisVars, otherVars,
                   reply_text>>

----------------------------------------------------------------------------
(* services/speech_service.py: GoogleStreamTTS.stream and GoogleTTSStream    *)
(* A stream is the record of the push_text calls made on it (submitted) and  *)
(* its output queue. The class defines no close and no cancel: a stream that *)
(* was opened stays usable.                                                  *)

\* The text segments the voice pipeline pushes; the last one is blank.
SegmentTexts == {"Preheat the oven.", " "}

\* `text.strip()` is empty, line 240
IsBlank(text) == text = " "

\* rtc.AudioFrame(data=response.audio_content, ...) of segment seg, lines 252-257
AudioFrame(text, seg) == [audio_of |-> text, seg |-> seg]

\* The empty frame synthesize() returns on failure, lines 216-221
EmptyFrame(seg) == [audio_of |-> "", seg |-> seg]

\* A synthesize_speech that is awaited instead of called: other calls run
\* while one synthesis is in flight.
LoopFreeWhileSynthesizing == TRUE

\* self._client.synthesize_speech(...) (line 245) is a plain call inside the
\* coroutine: nothing else runs on the event loop until it returns.
LoopFree == synth_calls = {}

\* GoogleStreamTTS.stream, lines 223-225: a new GoogleTTSStream each time; the
\* streams handed out before are not looked at.
Stream ==
    /\ LoopFree
    /\ Len(tts_streams) < MaxStreams
    /\ tts_streams' = Append(tts_streams, [submitted |-> <<>>, queue |-> <<>>])
    /\ UNCHANGED <<synth_calls, agentVars, telemetryVars, adapterVars, replyVars,
                   otherVars>>

\* The number of push_text calls made so far on the first n streams.
RECURSIVE Pushed(_)
Pushed(n) ==
    IF n = 0 THEN 0 ELSE Len(tts_streams[n].submitted) + Pushed(n - 1)

\* GoogleTTSStream.push_text, lines 238-249: up to the synthesis call
PushText(s, text) ==
    /\ LoopFree
    /\ s \in 1..Len(tts_streams)
    /\ Pushed(Len(tts_streams)) < MaxSegments
    /\ LET seg == Len(tts_streams[s].submitted) + 1
       IN  IF IsBlank(text)
           THEN /\ tts_streams' =
                       [tts_streams EXCEPT ![s].submitted =
                           Append(@, [text |-> text, status |-> "blank"])]
                /\ UNCHANGED synth_calls
           ELSE /\ tts_streams' =
                       [tts_streams EXCEPT ![s].submitted =
                           Append(@, [text |-> text, status |-> "synthesizing"])]
                /\ synth_calls' = synth_calls \cup {[stream |-> s, seg |-> seg]}
    /\ UNCHANGED <<agentVars, telemetryVars, adapterVars, replyVars, otherVars>>

\* An except clause that answers a failed synthesis as synthesize() does
\* (lines 213-221): with an empty frame.
FailedSegmentGivesEmptyFrame(stream, seg) ==
    [stream EXCEPT !.submitted[seg].status = "failed",
                   !.queue = Append(@, EmptyFrame(seg))]

\* lines 260-261: the except clause logs and push_text returns
FailedSegment(stream, seg) ==
    [stream EXCEPT !.submitted[seg].status = "failed"]

\* lines 251-258: the frame is put on the output queue
EmittedSegment(stream, seg) ==
    [stream EXCEPT !.submitted[seg].status = "emitted",
                   !.queue = Append(@, AudioFrame(stream.submitted[seg].text, seg))]

\* GoogleTTSStream.push_text, lines 245-261: synthesize_speech returns (ok)
\* or raises, and push_text runs to its end
SynthesizeSpeechDone(call, ok) ==
    /\ call \in synth_calls
    /\ synth_calls' = synth_calls \ {call}
    /\ tts_streams' =
           [tts_streams EXCEPT ![call.stream] =
               IF ok THEN EmittedSegment(@, call.seg)
               ELSE FailedSegment(@, call.seg)]
    /\ UNCHANGED <<agentVars, telemetryVars, adapterVars, replyVars, otherVars>>

----------------------------------------------------------------------------
(* services/speech_service.py, recognition: GoogleSTTStream (one session, used *)
(* through `async with`) and SpeechService.transcribe_audio_stream.            *)
(* The recognition capability is outside the source: it takes the requests the *)
(* generator yields one by one, returns responses only once it has been fed    *)
(* audio, ends its responses after the requests have ended, and may fail at    *)
(* any moment.                                                                 *)

\* frame.data of the frames handed to push_frame: the n-th frame carries audio
\* of its own, or no data at all.
FrameData(n) == {<<"pcm", n>>, <<>>}

\* What the capability may return: a response without results, an interim
\* result, final results, and a final result without alternatives.
Result(is_final, alternatives) ==
    [results |-> <<[is_final |-> is_final, alternatives |-> alternatives]>>]

SttResponses ==
    {[results |-> <<>>],
     Result(FALSE, <<"two">>),
     Result(TRUE, <<"two cups">>),
     Result(TRUE, <<"of flour">>),
     Result(TRUE, <<>>)}

\* line 170: the request made of a frame's data; line 132: the sentinel, None
StreamingRecognizeRequest(audio_content) == Some(audio_content)

Sentinel == <<>>

\* lines 121-128: __aenter__ opens the stream and creates the consumer task
AEnter ==
    /\ stt_session = "new"
    /\ stt_session' = "open"
    /\ stt_stream' = "open"
    /\ stt_task' = "running"
    /\ UNCHANGED <<stt_pushed, requests_queue, stt_taken, stt_responses,
                   stt_queue, transcript>>
    /\ UNCHANGED <<agentVars, telemetryVars, adapterVars, synthesisVars, replyVars,
                   teardownVars, statsVars>>

\* lines 167-171: push_frame, inside the `async with` block
PushFrame(data) ==
    /\ stt_session = "open"
    /\ Len(stt_pushed) < MaxChunks
    /\ stt_pushed' = Append(stt_pushed, data)
    /\ requests_queue' = IF data # <<>>
                         THEN Append(requests_queue, StreamingRecognizeRequest(data))
                         ELSE requests_queue
    /\ UNCHANGED <<stt_session, stt_taken, stt_stream, stt_task, stt_responses,
                   stt_queue, transcript>>
    /\ UNCHANGED <<agentVars, telemetryVars, adapterVars, synthesisVars, replyVars,
                   teardownVars, statsVars>>

\* lines 138-144: the capability asks _generate_requests for the next request;
\* the sentinel ends the generator.
GenerateRequests ==
    /\ stt_stream = "open"
    /\ requests_queue # <<>>
    /\ stt_taken' = Append(stt_taken, Head(requests_queue))
    /\ requests_queue' = Tail(requests_queue)
    /\ stt_stream' = IF Head(requests_queue) = Sentinel THEN "requests_ended"
                     ELSE stt_stream
    /\ UNCHANGED <<stt_session, stt_pushed, stt_task, stt_responses, stt_queue,
                   transcript>>
    /\ UNCHANGED <<agentVars, telemetryVars, adapterVars, synthesisVars, replyVars,
                   teardownVars, statsVars>>

\* The requests the capability has been fed.
Fed == SelectSeq(stt_taken, LAMBDA request : request # Sentinel)

\* A response is surfaced whenever it has a result with an alternative, final
\* or not.
SurfacedInterim(response) ==
    /\ response.results # <<>>
    /\ response.results[1].alternatives # <<>>

\* lines 150-154: `result.is_final and result.alternatives`
Surfaced(response) ==
    /\ response.results # <<>>
    /\ response.results[1].is_final
    /\ response.results[1].alternatives # <<>>

\* lines 155-162
SpeechEvent(response) ==
    [type |-> "FINAL_TRANSCRIPT", text |-> response.results[1].alternatives[1]]

\* lines 149-163: one round of the loop of _process_responses
ProcessResponses(response) ==
    /\ stt_task = "running"
    /\ stt_stream \in {"open", "requests_ended"}
    /\ Fed # <<>>
    /\ Len(stt_responses) < MaxResponses
    /\ stt_responses' = Append(stt_responses, response)
    /\ stt_queue' = IF Surfaced(response)
                    THEN Append(stt_queue, SpeechEvent(response))
                    ELSE stt_queue
    /\ UNCHANGED <<stt_session, stt_pushed, requests_queue, stt_taken, stt_stream,
                   stt_task, transcript>>
    /\ UNCHANGED <<agentVars, telemetryVars, adapterVars, synthesisVars, replyVars,
                   teardownVars, statsVars>>

\* The responses end once the requests have ended: the loop and the task end.
ResponsesEnd ==
    /\ stt_task = "running"
    /\ stt_stream = "requests_ended"
    /\ stt_stream' = "ended"
    /\ stt_task' = "done"
    /\ UNCHANGED <<stt_session, stt_pushed, requests_queue, stt_taken,
                   stt_responses, stt_queue, transcript>>
    /\ UNCHANGED <<agentVars, telemetryVars, adapterVars, synthesisVars, replyVars,
                   teardownVars, statsVars>>

\* _process_responses without its try: the exception ends the task.
ProcessResponsesExceptEscapes == "failed"

\* lines 164-165: the exception is logged, the task ends normally.
ProcessResponsesExcept == "done"

\* Reading the next response raises.
ResponsesFail ==
    /\ stt_task = "running"
    /\ stt_stream \in {"open", "requests_ended"}
    /\ stt_stream' = "failed"
    /\ stt_task' = ProcessResponsesExcept
    /\ UNCHANGED <<stt_session, stt_pushed, requests_queue, stt_taken,
                   stt_responses, stt_queue, transcript>>
    /\ UNCHANGED <<agentVars, telemetryVars, adapterVars, synthesisVars, replyVars,
                   teardownVars, statsVars>>

\* An __aexit__ that goes on to the release without waiting for the task.
AwaitsTaskNever == FALSE

\* lines 133-134: `await self._task` suspends while the task is running
AwaitsTask == stt_task = "running"

\* lines 134-136 once the task has ended: awaiting a task that ended with an
\* exception raises it; else the capability handle is released.
Released == IF stt_task = "failed" THEN "raised" ELSE "closed"

\* lines 130-136: __aexit__, up to the await of the task
AExit ==
    /\ stt_session = "open"
    /\ requests_queue' = Append(requests_queue, Sentinel)
    /\ stt_session' = IF AwaitsTask THEN "closing" ELSE Released
    /\ UNCHANGED <<stt_pushed, stt_taken, stt_stream, stt_task, stt_responses,
                   stt_queue, transcript>>
    /\ UNCHANGED <<agentVars, telemetryVars, adapterVars, synthesisVars, replyVars,
                   teardownVars, statsVars>>

\* lines 134-136: the task has ended, __aexit__ goes on
TaskAwaited ==
    /\ stt_session = "closing"
    /\ stt_task # "running"
    /\ stt_session' = Released
    /\ UNCHANGED <<stt_pushed, requests_queue, stt_taken, stt_stream, stt_task,
                   stt_responses, stt_queue, transcript>>
    /\ UNCHANGED <<agentVars, telemetryVars, adapterVars, synthesisVars, replyVars,
                   teardownVars, statsVars>>

\* lines 55-60: the transcript after the responses, from the one before them
RECURSIVE Transcript(_, _)
Transcript(responses, transcript_so_far) ==
    IF responses = <<>> THEN transcript_so_far
    ELSE LET response == Head(responses)
         IN  Transcript(Tail(responses),
                        IF response.results # <<>> /\ response.results[1].is_final
                        THEN response.results[1].alternatives[1]
                        ELSE transcript_so_far)

\* line 60 raises IndexError on a final result without alternatives
IndexErrorIn(responses) ==
    \E k \in 1..Len(responses) :
        /\ responses[k].results # <<>>
        /\ responses[k].results[1].is_final
        /\ responses[k].results[1].alternatives = <<>>

\* What the capability does in one call of transcribe_audio_stream: it returns
\* responses and then ends, or raises.
RecognizeOutcomes ==
    {[responses |-> responses, raises |-> raises] :
        responses \in UNION {[1..n -> SttResponses] : n \in 0..MaxResponses},
        raises \in BOOLEAN}

\* lines 39-66; raised: whether the capability raised during the call. The
\* call shares no state with a GoogleSTTStream: it is followed before the
\* session is entered.
TranscribeAudioStream(outcome) ==
    /\ IsNone(transcript)
    /\ stt_session = "new"
    /\ transcript' =
           Some([raised |-> outcome.raises,
                 text |-> IF outcome.raises \/ IndexErrorIn(outcome.responses)
                          THEN ""
                          ELSE Transcript(outcome.responses, "")])
    /\ UNCHANGED <<stt_session, stt_pushed, requests_queue, stt_taken, stt_stream,
                   stt_task, stt_responses, stt_queue>>
    /\ UNCHANGED <<agentVars, telemetryVars, adapterVars, synthesisVars, replyVars,
                   teardownVars, statsVars>>

----------------------------------------------------------------------------
(* BakeBotLLMAdapter.chat *)

ChatRoles == {"system", "user", "assistant"}

ChatContents == {"a", "b"}

ChatMessage == [role : ChatRoles, content : ChatContents]

ChatMessageLists == UNION {[1..n -> ChatMessage] : n \in 0..MaxChatLen}

\* lines 444-455: the user and assistant messages, in order. src is the index
\* of the message in `messages` (the entry's identity).
RECURSIVE ConvertMessages(_, _)
ConvertMessages(messages, n) ==
    IF n = 0 THEN <<>>
    ELSE LET msg == messages[n]
             rest == ConvertMessages(messages, n - 1)
         IN  IF msg.role = "user"
             THEN Append(rest, [sender |-> "user", content |-> msg.content, src |-> n])
             ELSE IF msg.role = "assistant"
             THEN Append(rest, [sender |-> "agent", content |-> msg.content, src |-> n])
             ELSE rest

\* lines 458-462: the index of the last user message, 0 when there is none
LastUserIndex(messages) ==
    LET users == {n \in 1..Len(messages) : messages[n].role = "user"}
    IN  IF users = {} THEN 0 ELSE CHOOSE n \in users : \A k \in users : k <= n

\* line 466: `conversation_history[:-1]`
ChatHistorySlice(history) == AllButLast(history)

\* lines 442-467: the call made on generate_voice_response
Chat(messages) ==
    LET last == LastUserIndex(messages)
    IN  [last_message |-> IF last = 0 THEN "" ELSE messages[last].content,
         last_src |-> last,
         history |-> ChatHistorySlice(ConvertMessages(messages, Len(messages)))]

AdapterChat ==
    /\ IsNone(chat_request)
    /\ chat_request' = Some(Chat(chat_messages))
    /\ UNCHANGED <<agentVars, chat_messages, telemetryVars, synthesisVars, replyVars,
                   otherVars>>

----------------------------------------------------------------------------
(* Specifications *)

\* The agent after __init__.
InitAgent ==
    /\ started = FALSE
    /\ participant = FALSE
    /\ voice_assistant = FALSE
    /\ session_config = <<>>
    /\ conversation_history = <<>>
    /\ inbound = <<>>
    /\ tasks = <<>>
    /\ log = <<>>
    /\ speech_start_time = <<>>
    /\ performance_metrics = [name \in MetricNames |-> <<>>]
    /\ warnings = <<>>
    /\ clock = 0
    /\ voice_events = 0
    /\ voice_event = None
    /\ cleanup = "none"
    /\ stats = <<>>

\* A GoogleSTTStream as stream() returns it (lines 111-119); no call of
\* transcribe_audio_stream yet.
InitRecognition ==
    /\ stt_session = "new"
    /\ stt_pushed = <<>>
    /\ requests_queue = <<>>
    /\ stt_taken = <<>>
    /\ stt_stream = "none"
    /\ stt_task = "none"
    /\ stt_responses = <<>>
    /\ stt_queue = <<>>
    /\ transcript = <<>>

\* No synthesis stream has been opened, no voice response requested, no
\* recognition session entered.
InitServices ==
    /\ tts_streams = <<>>
    /\ synth_calls = {}
    /\ reply_text = <<>>
    /\ voice_response = <<>>
    /\ InitRecognition

Init ==
    /\ InitAgent
    /\ InitServices
    /\ chat_messages = <<>>
    /\ chat_request = <<>>

AwaitReturns ==
    \E i \in 1..MaxMessages :
        \/ \E outcome \in GenOutcomes : GenDone(i, outcome)
        \/ \E ok \in BOOLEAN : PublishDone(i, ok)
        \/ \E ok \in BOOLEAN : CancelDone(i, ok)
        \/ \E ok \in BOOLEAN : SayDone(i, ok)

\* _handle_data_message, lines 222-239
\* lines 229-230
DispatchText(data) ==
    /\ Decodes(data)
    /\ inbound' = Append(inbound, data)
    /\ ReceiveText(Message(data))

\* lines 232-233
DispatchImage(data) ==
    /\ Decodes(data)
    /\ inbound' = Append(inbound, data)
    /\ ReceiveImage(Message(data))

\* lines 235-236
DispatchControl(data) ==
    /\ Decodes(data)
    /\ inbound' = Append(inbound, data)
    /\ ReceiveControl(Message(data))

Receive ==
    \E data \in InboundData :
        \/ ReceiveUndecodable(data)
        \/ DispatchText(data)
        \/ DispatchImage(data)
        \/ DispatchControl(data)

\* Tasks run concurrently: a message may arrive while handlers are suspended.
Next ==
    \/ \E remote \in BOOLEAN : Start(remote)
    \/ Receive
    \/ AwaitReturns

Spec == Init /\ [][Next]_vars

\* Every handler has returned.
Idle == \A i \in 1..Len(tasks) : tasks[i].pc = "done"

\* Messages are processed serially: the next one is dispatched only when the
\* handler of the previous one has returned.
NextSerial ==
    \/ \E remote \in BOOLEAN : Start(remote)
    \/ Idle /\ Receive
    \/ AwaitReturns

SpecSerial == Init /\ [][NextSerial]_vars

\* A voice session: the messages of a spoken conversation are handled one
\* after the other while the voice assistant delivers its events, also between
\* the steps of a suspended handler.
VoiceSessionMessages ==
    {m \in InboundMessages :
        \/ m.type = "text"
        \/ /\ m.type = "control"
           /\ Get(m.payload, "action", None) \in {"end_session", "interrupt"}
        \/ /\ m.type = "control"
           /\ Get(m.payload, "session_type", None) = "voice-vad"}

VoiceSessionData == {JsonDumps(m) : m \in VoiceSessionMessages}

ReceiveVoice ==
    \E data \in VoiceSessionData :
        \/ DispatchText(data)
        \/ DispatchControl(data)

NextVoice ==
    \/ \E remote \in BOOLEAN : Start(remote)
    \/ Idle /\ ReceiveVoice
    \/ AwaitReturns
    \/ VoiceEvent

SpecVoice == Init /\ [][NextVoice]_vars

\* generate_voice_response alone, on any reply generation may return.
InitVoiceResponse ==
    /\ InitAgent
    /\ chat_messages = <<>>
    /\ chat_request = <<>>
    /\ tts_streams = <<>>
    /\ synth_calls = {}
    /\ reply_text \in ReplyTexts
    /\ voice_response = <<>>
    /\ InitRecognition

NextVoiceResponse == GenerateVoiceResponse

SpecVoiceResponse == InitVoiceResponse /\ [][NextVoiceResponse]_vars

\* The synthesis side of the speech bridge, driven by the voice pipeline.
NextSynthesis ==
    \/ Stream
    \/ \E s \in 1..MaxStreams : \E text \in SegmentTexts : PushText(s, text)
    \/ \E s \in 1..MaxStreams : \E seg \in 1..MaxSegments : \E ok \in BOOLEAN :
           SynthesizeSpeechDone([stream |-> s, seg |-> seg], ok)

SpecSynthesis == Init /\ [][NextSynthesis]_vars

\* The adapter alone, on any message list the voice pipeline may hand it.
InitAdapter ==
    /\ InitAgent
    /\ InitServices
    /\ chat_messages \in ChatMessageLists
    /\ chat_request = <<>>

NextAdapter == AdapterChat

SpecAdapter == InitAdapter /\ [][NextAdapter]_vars

\* A voice session that is already running: start has bound the participant
\* and a start_session (voice-vad) has been handled to its end. The events of
\* the two are not kept in log, and the messages counted from here on are the
\* messages of the session.
InitVoiceSession ==
    /\ started = TRUE
    /\ participant = TRUE
    /\ voice_assistant = TRUE
    /\ session_config =
           Some(BuildSessionConfig([action |-> "start_session",
                                    session_type |-> "voice-vad"]))
    /\ conversation_history = <<>>
    /\ inbound = <<>>
    /\ tasks = <<>>
    /\ log = <<>>
    /\ speech_start_time = <<>>
    /\ performance_metrics = [name \in MetricNames |-> <<>>]
    /\ warnings = <<>>
    /\ clock = 0
    /\ voice_events = 0
    /\ voice_event = None
    /\ cleanup = "none"
    /\ stats = <<>>
    /\ InitServices
    /\ chat_messages = <<>>
    /\ chat_request = <<>>

\* What the client sends inside a session.
InSessionData ==
    {JsonDumps(m) : m \in
        {n \in InboundMessages :
            \/ n.type = "text"
            \/ /\ n.type = "control"
               /\ Get(n.payload, "action", None) \in {"end_session", "interrupt"}}}

ReceiveInSession ==
    \E data \in InSessionData :
        \/ DispatchText(data)
        \/ DispatchControl(data)

\* As in Spec, a message may arrive while handlers are suspended.
NextInSession ==
    \/ ReceiveInSession
    \/ AwaitReturns

SpecInSession == InitVoiceSession /\ [][NextInSession]_vars

\* The job ends while a session is served: messages are handled one after the
\* other, and cleanup may start at any moment.
NextTeardown ==
    \/ \E remote \in BOOLEAN : Start(remote)
    \/ Idle /\ ReceiveVoice
    \/ AwaitReturns
    \/ Cleanup
    \/ \E ok \in BOOLEAN : StopDone(ok)

SpecTeardown == Init /\ [][NextTeardown]_vars

\* The latency metrics alone. The run begins in the middle of a voice session:
\* every earlier turn has left one sample in stt_latency (agent started
\* speaking) and a later one in total_roundtrip (agent stopped speaking), the
\* two lists the handlers append to; the other two stay empty. Every sample of
\* total_roundtrip above the target has been warned about, and the clock is
\* read from zero again.
LatencySamples == {ticks * TickMs : ticks \in 0..MaxClock}

SampleLists == UNION {[1..n -> LatencySamples] : n \in 0..MaxSamples}

InitTelemetry ==
    /\ started = TRUE
    /\ participant = FALSE
    /\ voice_assistant = TRUE
    /\ session_config = <<>>
    /\ conversation_history = <<>>
    /\ inbound = <<>>
    /\ tasks = <<>>
    /\ log = <<>>
    /\ speech_start_time \in {<<>>, Some(0)}
    /\ performance_metrics \in
           {[stt_latency |-> stt, tts_latency |-> <<>>, llm_latency |-> <<>>,
             total_roundtrip |-> total] : stt \in SampleLists, total \in SampleLists}
    /\ Len(performance_metrics.stt_latency) = Len(performance_metrics.total_roundtrip)
    /\ \A turn \in 1..Len(performance_metrics.stt_latency) :
           performance_metrics.stt_latency[turn]
               <= performance_metrics.total_roundtrip[turn]
    /\ performance_metrics.stt_latency # <<>> => HasSpeechStart
    /\ warnings = SelectSeq(performance_metrics.total_roundtrip, LatencyTargetExceeded)
    /\ clock = 0
    /\ voice_events = 0
    /\ voice_event = None
    /\ cleanup = "none"
    /\ stats = <<>>
    /\ InitServices
    /\ chat_messages = <<>>
    /\ chat_request = <<>>

NextTelemetry ==
    \/ VoiceEvent
    \/ GetPerformanceStats

SpecTelemetry == InitTelemetry /\ [][NextTelemetry]_vars

\* One recognition session and one call of transcribe_audio_stream.
NextRecognition ==
    \/ AEnter
    \/ \E data \in FrameData(Len(stt_pushed) + 1) : PushFrame(data)
    \/ GenerateRequests
    \/ \E response \in SttResponses : ProcessResponses(response)
    \/ ResponsesEnd
    \/ ResponsesFail
    \/ AExit
    \/ TaskAwaited
    \/ \E outcome \in RecognizeOutcomes : TranscribeAudioStream(outcome)

SpecRecognition == Init /\ [][NextRecognition]_vars

\* The capability goes on taking requests and ends its responses once the
\* requests have ended; the event loop resumes __aexit__ once the task it
\* waits for has ended.
SpecRecognitionFair ==
    /\ SpecRecognition
    /\ WF_vars(GenerateRequests)
    /\ WF_vars(ResponsesEnd)
    /\ WF_vars(TaskAwaited)

\* Messages that carry nothing to answer: a text message whose content is
\* missing or empty, an image message whose data is missing or empty.
EmptyMessages ==
    {DataChannelMessage("text", p) : p \in {[content |-> ""], [format |-> "plain"]}}
    \cup {DataChannelMessage("image", p) :
            p \in {[data |-> ""], [caption |-> "Is this done cooking?"]}}

\* The messages of a voice session, image messages and empty messages, handled
\* concurrently as in Spec.
AlsoEmptyData ==
    {JsonDumps(m) : m \in VoiceSessionMessages \cup EmptyMessages
                          \cup {n \in InboundMessages : n.type = "image"}}

ReceiveAlsoEmpty ==
    \E data \in AlsoEmptyData :
        \/ DispatchText(data)
        \/ DispatchImage(data)
        \/ DispatchControl(data)

NextAlsoEmpty ==
    \/ \E remote \in BOOLEAN : Start(remote)
    \/ ReceiveAlsoEmpty
    \/ AwaitReturns

SpecAlsoEmpty == Init /\ [][NextAlsoEmpty]_vars

\* The life of an agent from the middle of a voice session to cleanup. Start
\* has run, with or without a remote participant in the room; a start_session
\* (voice-vad) has been handled to its end; one spoken turn has left a sample
\* in stt_latency and one in total_roundtrip (spoken turns go through the LLM
\* adapter and leave the history alone). The events of this prefix are not
\* kept in log, and messages and voice events are counted from here on.
InitLifetime ==
    /\ started = TRUE
    /\ participant \in BOOLEAN
    /\ voice_assistant = TRUE
    /\ session_config =
           Some(BuildSessionConfig([action |-> "start_session",
                                    session_type |-> "voice-vad"]))
    /\ conversation_history = <<>>
    /\ inbound = <<>>
    /\ tasks = <<>>
    /\ log = <<>>
    /\ speech_start_time = Some(0)
    /\ performance_metrics =
           [stt_latency |-> <<TickMs>>, tts_latency |-> <<>>, llm_latency |-> <<>>,
            total_roundtrip |-> <<2 * TickMs>>]
    /\ warnings = SelectSeq(performance_metrics.total_roundtrip, LatencyTargetExceeded)
    /\ clock = 2
    /\ voice_events = 0
    /\ voice_event = None
    /\ cleanup = "none"
    /\ stats = <<>>
    /\ InitServices
    /\ chat_messages = <<>>
    /\ chat_request = <<>>

\* What reaches the agent from then on: messages of every kind (text, image,
\* session control, bytes that are not JSON).
LifetimeData ==
    {JsonDumps(m) : m \in
        {n \in InboundMessages :
            \/ n.type = "text"
            \/ n.type = "image" /\ "caption" \notin DOMAIN n.payload
            \/ n.type = "control" /\ Get(n.payload, "action", None) = "end_session"
            \/ /\ n.type = "control"
               /\ Get(n.payload, "session_type", None) = "text"}}
    \cup {NotJson}

\* At most MaxMessages messages and voice events reach the agent in one run,
\* and none once cleanup has come to its end (the job is over).
InLifetime ==
    /\ Len(tasks) + voice_events < MaxMessages
    /\ cleanup \in {"none", "stop"}

ReceiveLifetime ==
    /\ InLifetime
    /\ \E data \in LifetimeData :
           \/ ReceiveUndecodable(data)
           \/ DispatchText(data)
           \/ DispatchImage(data)
           \/ DispatchControl(data)

\* The handlers run concurrently, the voice assistant delivers its events
\* between their steps, and cleanup may start at any moment.
NextLifetime ==
    \/ ReceiveLifetime
    \/ AwaitReturns
    \/ InLifetime /\ VoiceEvent
    \/ Cleanup
    \/ \E ok \in BOOLEAN : StopDone(ok)

SpecLifetime == InitLifetime /\ [][NextLifetime]_vars

\* An agent that has started, with or without a remote participant, in any
\* state of its session: none, a text session, a voice session. The events of
\* this prefix are not kept in log, but for the write of the config that is
\* live (message 0); the messages counted from here on are text messages and
\* the session transitions that may overtake their replies.
SessionChangePayloads ==
    {[action |-> "start_session"],
     [action |-> "start_session", session_type |-> "voice-vad",
      voice_mode |-> "vad", user_id |-> "u1", turn_detection |-> "server"]}

InitAnySession ==
    /\ started = TRUE
    /\ participant \in BOOLEAN
    /\ voice_assistant = TRUE
    /\ session_config \in
           {<<>>} \cup {Some(BuildSessionConfig(p)) : p \in SessionChangePayloads}
    /\ conversation_history = <<>>
    /\ inbound = <<>>
    /\ tasks = <<>>
    /\ log = IF IsNone(session_config) THEN <<>>
             ELSE <<Event("session_config", 0, session_config[1].session_type, <<>>)>>
    /\ speech_start_time = <<>>
    /\ performance_metrics = [name \in MetricNames |-> <<>>]
    /\ warnings = <<>>
    /\ clock = 0
    /\ voice_events = 0
    /\ voice_event = None
    /\ cleanup = "none"
    /\ stats = <<>>
    /\ InitServices
    /\ chat_messages = <<>>
    /\ chat_request = <<>>

SessionChangeData ==
    {JsonDumps(DataChannelMessage("text", p)) : p \in TextPayloads}
    \cup {JsonDumps(DataChannelMessage("control", p)) :
            p \in SessionChangePayloads \cup {[action |-> "end_session"]}}

ReceiveSessionChange ==
    \E data \in SessionChangeData :
        \/ DispatchText(data)
        \/ DispatchControl(data)

\* As in Spec, a message may arrive while handlers are suspended.
NextSessionChange ==
    \/ ReceiveSessionChange
    \/ AwaitReturns

SpecSessionChange == InitAnySession /\ [][NextSessionChange]_vars

----------------------------------------------------------------------------
(* Properties *)

TaskIds == 1..Len(tasks)

\* The events of log made for message i that satisfy Test.
EventsOf(i, Test(_)) == {p \in 1..Len(log) : log[p].msg = i /\ Test(log[p])}

IsPublish(e) == e.ev = "publish_data"

IsCancel(e) == e.ev = "cancel"

\* Task i handles a text or image message that is not ignored (non-empty
\* content, non-empty image data).
Answered(i) ==
    LET m == tasks[i].message
    IN  \/ m.type = "text" /\ "content" \in DOMAIN m.payload /\ m.payload.content # ""
        \/ m.type = "image" /\ "data" \in DOMAIN m.payload /\ m.payload.data # ""

\* The content the user turn of message m is to carry.
UserContent(m) ==
    IF m.type = "text" THEN m.payload.content
    ELSE IF "caption" \in DOMAIN m.payload /\ m.payload.caption # ""
    THEN "[Image] Is this done cooking?"
    ELSE "[Image]"

UserTurnOf(i) ==
    [sender |-> "user", content |-> UserContent(tasks[i].message), msg |-> i]

AgentTurnOf(i) ==
    [sender |-> "agent", content |-> tasks[i].response_text, msg |-> i]

\* The turns message i has contributed so far when handled serially.
ExpectedTurns(i) ==
    IF ~Answered(i) THEN <<>>
    ELSE IF tasks[i].pc = "gen" THEN <<UserTurnOf(i)>>
    ELSE <<UserTurnOf(i), AgentTurnOf(i)>>

RECURSIVE ExpectedHistory(_)
ExpectedHistory(n) ==
    IF n = 0 THEN <<>> ELSE ExpectedHistory(n - 1) \o ExpectedTurns(n)

\* C1: when messages are processed serially, the history is at every moment
\* [user_1, agent_1, ..., user_N, agent_N] in arrival order (the last pair cut
\* after its user turn while its reply is being generated); once every handler
\* has returned it has length 2N, user_i carries message i's content and
\* agent_i the reply generated for message i.
C1_SerialHistoryInterleaving ==
    /\ conversation_history = ExpectedHistory(Len(tasks))
    /\ Idle =>
         /\ Len(conversation_history) = 2 * Cardinality({i \in TaskIds : Answered(i)})
         /\ \A k \in 1..Len(conversation_history) :
                conversation_history[k].sender =
                    (IF k % 2 = 1 THEN "user" ELSE "agent")
         /\ \A i \in TaskIds :
                Answered(i) =>
                    tasks[i].response_text \in Replies \cup {TextFallback, ImageFallback}

\* A text and an image message have been answered, one after the other.
C1_Witness ==
    /\ Idle
    /\ Len(tasks) = 2
    /\ \A i \in TaskIds : Answered(i)
    /\ \E i, j \in TaskIds : tasks[i].message.type = "text"
                             /\ tasks[j].message.type = "image"
    /\ conversation_history =
           <<UserTurnOf(1), AgentTurnOf(1), UserTurnOf(2), AgentTurnOf(2)>>

----------------------------------------------------------------------------
\* C2: no generation request carries the turn it answers in its history: on
\* the text path the history handed to generate_text_response holds no turn of
\* the message being answered, and on the adapter path the history handed to
\* generate_voice_response does not hold the message the prompt was taken from,
\* for any message list.
C2_NoSelfReference ==
    /\ \A i \in TaskIds :
           \A k \in 1..Len(tasks[i].gen_history) : tasks[i].gen_history[k].msg # i
    /\ ~IsNone(chat_request) =>
           LET request == chat_request[1]
           IN  \A k \in 1..Len(request.history) :
                   request.history[k].src # request.last_src

\* The text path alone keeps C2: it appends the user turn and slices it off
\* again with no suspension in between.
C2_TextPathExcludesOwnTurn ==
    \A i \in TaskIds :
        tasks[i].message.type = "text" /\ Answered(i) =>
            /\ \A k \in 1..Len(tasks[i].gen_history) : tasks[i].gen_history[k].msg < i
            /\ \E k \in 1..Len(conversation_history) :
                   /\ conversation_history[k] = UserTurnOf(i)
                   /\ tasks[i].gen_history = SubSeq(conversation_history, 1, k - 1)

----------------------------------------------------------------------------
\* C3: with one task per data_received event, the turns of each sender appear
\* in the history in the arrival order of their messages: user turns in the
\* order the messages arrived, agent turns in the order of the messages they
\* answer.
C3_PerSenderArrivalOrder ==
    \A p, q \in 1..Len(conversation_history) :
        (p < q /\ conversation_history[p].sender = conversation_history[q].sender)
            => conversation_history[p].msg < conversation_history[q].msg

\* The user turns alone are in arrival order under concurrency.
C3_UserTurnsInArrivalOrder ==
    \A p, q \in 1..Len(conversation_history) :
        (p < q /\ conversation_history[p].sender = "user"
               /\ conversation_history[q].sender = "user")
            => conversation_history[p].msg < conversation_history[q].msg

----------------------------------------------------------------------------
HasTurn(turn) ==
    \E k \in 1..Len(conversation_history) : conversation_history[k] = turn

TurnsOf(i) ==
    {k \in 1..Len(conversation_history) : conversation_history[k].msg = i}

\* C4: for a dispatched text or image message with non-empty content, the user
\* turn is in the history while the reply is generated and the agent turn is
\* not; the agent turn is in the history, after the user turn, from the moment
\* the outbound send is attempted; a failed publish leaves both turns in place
\* and is caught inside _handle_data_message.
C4_TurnsSurviveSendFailure ==
    \A i \in TaskIds :
        Answered(i) =>
            /\ tasks[i].pc = "gen" =>
                   /\ HasTurn(UserTurnOf(i))
                   /\ Cardinality(TurnsOf(i)) = 1
            /\ tasks[i].pc \in {"send", "say", "done"} =>
                   /\ Cardinality(TurnsOf(i)) = 2
                   /\ \E k, l \in TurnsOf(i) :
                          /\ k < l
                          /\ conversation_history[k] = UserTurnOf(i)
                          /\ conversation_history[l] = AgentTurnOf(i)
            /\ tasks[i].exc \in {"none", "caught"}
            /\ tasks[i].exc = "caught" => tasks[i].pc = "done"

\* A single text message whose publish failed (no session was ever started, so
\* the handler awaited nothing after the publish).
C4_Witness ==
    /\ Len(tasks) = 1
    /\ tasks[1].message.type = "text"
    /\ tasks[1].pc = "done"
    /\ tasks[1].exc = "caught"
    /\ \E p \in 1..Len(log) : log[p].msg = 1 /\ IsPublish(log[p])
    /\ conversation_history = <<UserTurnOf(1), AgentTurnOf(1)>>

----------------------------------------------------------------------------
Fallback(i) ==
    IF tasks[i].message.type = "text" THEN TextFallback ELSE ImageFallback

GenFailed(i) == tasks[i].response_text = Fallback(i)

\* C5: a failure of the generation or image-analysis capability yields the
\* fixed fallback string as the reply (never an error, never an empty reply):
\* the agent turn holding the fallback is appended, the fallback is what is
\* handed to the outbound send as the text reply (published whenever a
\* participant is bound), the handler is not ended by an exception at that
\* point, and the step leaves the session config as it was.
C5_StateOnFailure ==
    \A i \in TaskIds :
        Answered(i) /\ tasks[i].pc # "gen" =>
            /\ tasks[i].response_text \in Replies \cup {Fallback(i)}
            /\ GenFailed(i) =>
                   /\ HasTurn([sender |-> "agent", content |-> Fallback(i), msg |-> i])
                   /\ \A p \in EventsOf(i, IsPublish) :
                          /\ log[p].type = "text"
                          /\ log[p].payload = [content |-> Fallback(i)]
                   /\ participant => Cardinality(EventsOf(i, IsPublish)) = 1

C5_ConfigUnchangedByGeneration ==
    \A i \in TaskIds :
        (tasks[i].pc = "gen" /\ tasks'[i].pc # "gen")
            => /\ session_config' = session_config
               /\ tasks'[i].pc \in {"send", "say", "done"}
               /\ tasks'[i].exc = "none"

C5_FallbackOnGenerationFailure ==
    []C5_StateOnFailure /\ [][C5_ConfigUnchangedByGeneration]_vars

\* Message 1's generation failed and its fallback was sent; message 2 arrived
\* after that, with the fallback turn in the history it was answered from.
C5_Witness ==
    /\ Len(tasks) >= 2
    /\ participant
    /\ tasks[1].message.type = "text"
    /\ tasks[1].pc = "done"
    /\ GenFailed(1)
    /\ \E p \in EventsOf(1, IsPublish) : log[p].payload = [content |-> TextFallback]
    /\ tasks[2].message.type = "text"
    /\ tasks[2].gen_history =
           <<UserTurnOf(1), [sender |-> "agent", content |-> TextFallback, msg |-> 1]>>
    /\ tasks[2].response_text \in Replies
    /\ tasks[2].pc = "done"

----------------------------------------------------------------------------
ActionOf(i) ==
    IF tasks[i].message.type = "control" /\ "action" \in DOMAIN tasks[i].message.payload
    THEN tasks[i].message.payload.action
    ELSE None

\* A start_session whose session type (given, or the default) is a SessionType.
IsStart(i) ==
    /\ ActionOf(i) = "start_session"
    /\ ("session_type" \in DOMAIN tasks[i].message.payload
           => tasks[i].message.payload.session_type \in {"text", "voice-ptt", "voice-vad"})

IsEnd(i) == ActionOf(i) = "end_session"

IsInterrupt(i) == ActionOf(i) = "interrupt"

\* The config a start_session payload asks for: its own fields, and the
\* defaults for the fields it leaves out.
RequestedConfig(payload) ==
    [session_type |-> IF "session_type" \in DOMAIN payload
                      THEN payload.session_type ELSE "text",
     voice_mode |-> IF "voice_mode" \in DOMAIN payload
                    THEN payload.voice_mode ELSE None,
     user_id |-> IF "user_id" \in DOMAIN payload
                 THEN payload.user_id ELSE "unknown",
     turn_detection |-> IF "turn_detection" \in DOMAIN payload
                        THEN payload.turn_detection ELSE "auto"]

\* The start_session and end_session messages received so far.
Transitions == {i \in TaskIds : IsStart(i) \/ IsEnd(i)}

LastTransition == CHOOSE i \in Transitions : \A j \in Transitions : j <= i

\* C6: the live config is always the one the latest start_session asked for,
\* built from that payload and the defaults alone, whatever sessions came
\* before it (and absent when an end_session came last or no session was
\* started): no field of an earlier config survives a start_session.
C6_StartSessionReplacesConfig ==
    IF Transitions = {} \/ IsEnd(LastTransition)
    THEN session_config = <<>>
    ELSE session_config = <<RequestedConfig(tasks[LastTransition].message.payload)>>

\* A session with every field set is replaced by a start_session with an empty
\* payload: the live config holds the defaults only.
C6_Witness ==
    /\ Len(tasks) >= 2
    /\ tasks[1].message.payload =
           [action |-> "start_session", session_type |-> "voice-vad",
            voice_mode |-> "vad", user_id |-> "u1", turn_detection |-> "server"]
    /\ tasks[2].message.payload = [action |-> "start_session"]
    /\ session_config = <<[session_type |-> "text", voice_mode |-> None,
                           user_id |-> "unknown", turn_detection |-> "auto"]>>

----------------------------------------------------------------------------
IsAck(e) == IsPublish(e) /\ e.type = "control"

\* Handler i has come to the end of its control action (it has returned, or it
\* is suspended in the publish of its acknowledgment).
PastAck(i) == tasks[i].pc \in {"send", "done"}

\* C7: every start_session and every end_session transition emits exactly one
\* outbound control message, with status session_started resp. session_ended,
\* and an interrupt emits no outbound message, in every reachable state.
C7_ExactlyOneAck ==
    \A i \in TaskIds :
        /\ (IsStart(i) /\ PastAck(i)) =>
               /\ Cardinality(EventsOf(i, IsPublish)) = 1
               /\ \A p \in EventsOf(i, IsPublish) :
                      log[p].type = "control"
                      /\ log[p].payload = [status |-> "session_started"]
        /\ (IsEnd(i) /\ PastAck(i)) =>
               /\ Cardinality(EventsOf(i, IsPublish)) = 1
               /\ \A p \in EventsOf(i, IsPublish) :
                      log[p].type = "control"
                      /\ log[p].payload = [status |-> "session_ended"]
        /\ IsInterrupt(i) => EventsOf(i, IsPublish) = {}

\* What holds of the acknowledgments: one per transition when a participant is
\* bound, none otherwise, never one for an interrupt.
C7_AckWhenParticipantBound ==
    \A i \in TaskIds :
        /\ ((IsStart(i) \/ IsEnd(i)) /\ PastAck(i)) =>
               /\ Cardinality(EventsOf(i, IsPublish)) = (IF participant THEN 1 ELSE 0)
               /\ \A p \in EventsOf(i, IsPublish) :
                      log[p].type = "control"
                      /\ log[p].payload =
                             [status |-> IF IsStart(i) THEN "session_started"
                                         ELSE "session_ended"]
        /\ IsInterrupt(i) => EventsOf(i, IsPublish) = {}

----------------------------------------------------------------------------
IsConfigWrite(e) == e.ev = "session_config"

----------------------------------------------------------------------------
\* C9: an end_session sets the config to absent on receipt (it stays absent
\* until a later start_session), and its handler always goes on to the
\* session_ended acknowledgment, whether cancel() returns, raises, or finds
\* nothing to cancel: the handler never ends on a failure of cancel, and once
\* it has returned the acknowledgment has been handed to the transport if a
\* participant is bound.
C9_EndSessionAlwaysCompletes ==
    \A i \in TaskIds :
        IsEnd(i) =>
            /\ \E q \in EventsOf(i, IsConfigWrite) : log[q].type = None
            /\ session_config = <<>> \/ \E j \in TaskIds : j > i /\ IsStart(j)
            /\ tasks[i].pc \in {"cancel", "send", "done"}
            /\ tasks[i].pc = "cancel" => EventsOf(i, IsCancel) # {}
            /\ (tasks[i].pc \in {"send", "done"} /\ participant) =>
                   \E p \in EventsOf(i, IsAck) :
                       log[p].payload = [status |-> "session_ended"]
            /\ tasks[i].exc # "none" => EventsOf(i, IsAck) # {}

\* An end_session received in an Active session has called cancel(), has sent
\* its acknowledgment and has returned, leaving no session.
C9_Witness ==
    \E i, j \in TaskIds :
        /\ IsStart(j)
        /\ j < i
        /\ IsEnd(i)
        /\ tasks[i].pc = "done"
        /\ tasks[i].exc = "none"
        /\ EventsOf(i, IsCancel) # {}
        /\ \E p \in EventsOf(i, IsAck) : log[p].payload = [status |-> "session_ended"]
        /\ session_config = <<>>

----------------------------------------------------------------------------
\* The session was Active when the event at position p of log was made.
ActiveAt(p) ==
    \E q \in 1..(p - 1) :
        /\ IsConfigWrite(log[q])
        /\ log[q].type # None
        /\ \A r \in (q + 1)..(p - 1) : ~IsConfigWrite(log[r])

\* C10: an interrupt invokes cancel() only while the session is Active;
\* received in NoSession (before any start_session, or after an end_session)
\* it invokes no cancel.
C10_InterruptCancelsOnlyWhenActive ==
    \A p \in 1..Len(log) :
        (IsCancel(log[p]) /\ IsInterrupt(log[p].msg)) => ActiveAt(p)

\* What the handler does: with the voice assistant set up, every interrupt
\* invokes cancel() once, whatever the session state.
C10_InterruptAlwaysCancels ==
    \A i \in TaskIds :
        IsInterrupt(i) =>
            Cardinality(EventsOf(i, IsCancel)) = (IF voice_assistant THEN 1 ELSE 0)

----------------------------------------------------------------------------
(* C11: interrupt *)

\* This step is taken by the handler of an interrupt: its run from receipt to
\* the await of cancel(), or its run after cancel() has returned or raised.
InterruptStep ==
    \/ /\ Len(tasks') = Len(tasks) + 1
       /\ tasks'[Len(tasks')].message.type = "control"
       /\ "action" \in DOMAIN tasks'[Len(tasks')].message.payload
       /\ tasks'[Len(tasks')].message.payload.action = "interrupt"
    \/ \E i \in TaskIds :
           IsInterrupt(i) /\ tasks[i].pc = "cancel" /\ tasks'[i].pc = "done"

IsErrorLog(e) == e.ev = "logger.error"

\* The handler of an interrupt never ends in the except clause of the dispatch
\* path, and never publishes.
C11_InterruptContained ==
    \A i \in TaskIds :
        IsInterrupt(i) => tasks[i].exc = "none" /\ EventsOf(i, IsPublish) = {}

\* A step of an interrupt handler changes neither config, history nor metrics,
\* and a cancel that raised leaves exactly a logged error behind.
C11_InterruptFrameStep ==
    InterruptStep =>
        /\ session_config' = session_config
        /\ conversation_history' = conversation_history
        /\ performance_metrics' = performance_metrics
        /\ speech_start_time' = speech_start_time
        /\ \A p \in (Len(log) + 1)..Len(log') : log'[p].ev \in {"cancel", "logger.error"}

\* C11: an interrupt leaves the session config, the conversation history and
\* the latency metrics as they were, whether its cancel() returns or raises; a
\* cancel failure is logged and does not leave the handler.
C11_InterruptLeavesStateUnchanged ==
    []C11_InterruptContained /\ [][C11_InterruptFrameStep]_vars

\* An interrupt whose cancel() raised has been handled in an Active session
\* with a latency sample on record.
C11_Witness ==
    \E i \in TaskIds :
        /\ IsInterrupt(i)
        /\ tasks[i].pc = "done"
        /\ EventsOf(i, IsErrorLog) # {}
        /\ ~IsNone(session_config)
        /\ performance_metrics.total_roundtrip # <<>>

----------------------------------------------------------------------------
(* C12: malformed control actions *)

\* A control message the handler cannot act on: no action, an action other
\* than the three it knows, or a start_session with an unknown session type.
MalformedControl(m) ==
    /\ m.type = "control"
    /\ \/ "action" \notin DOMAIN m.payload
       \/ m.payload.action \notin {"start_session", "end_session", "interrupt"}
       \/ /\ m.payload.action = "start_session"
          /\ "session_type" \in DOMAIN m.payload
          /\ m.payload.session_type \notin {"text", "voice-ptt", "voice-vad"}

\* A malformed control message is done with in the step that receives it, with
\* no call and no config write made for it, and nothing raised past the
\* except clause of the dispatch path.
C12_MalformedControlDone ==
    \A i \in TaskIds :
        MalformedControl(tasks[i].message) =>
            /\ tasks[i].pc = "done"
            /\ tasks[i].exc \in {"none", "caught"}
            /\ \A p \in 1..Len(log) : log[p].msg # i

\* The step that receives a malformed control message leaves the session
\* state as it was and emits nothing.
C12_MalformedControlStep ==
    (Len(tasks') = Len(tasks) + 1 /\ MalformedControl(tasks'[Len(tasks')].message)) =>
        /\ session_config' = session_config
        /\ conversation_history' = conversation_history
        /\ performance_metrics' = performance_metrics
        /\ log' = log

\* C12: a malformed control action is a no-op: the session state is the same
\* before and after (an Active config is kept), no acknowledgment is emitted
\* and nothing is raised out of the dispatch path.
C12_MalformedControlIsNoOp ==
    []C12_MalformedControlDone /\ [][C12_MalformedControlStep]_vars

\* A start_session with an unknown session type has been rejected in an Active
\* voice session, which is still live.
C12_Witness ==
    /\ Len(tasks) = 2
    /\ IsStart(1)
    /\ tasks[2].message.payload = [action |-> "start_session",
                                   session_type |-> "voice", user_id |-> "u3"]
    /\ tasks[2].exc = "caught"
    /\ ~IsNone(session_config)
    /\ session_config[1].session_type = "voice-vad"

----------------------------------------------------------------------------
(* C13: decoding and routing of inbound data *)

\* The data is a well-formed document with the four envelope fields and a
\* type among text, image and control.
WellFormedEnvelope(data) ==
    /\ data.well_formed
    /\ {"type", "payload", "timestamp", "message_id"} \subseteq DOMAIN data.doc
    /\ data.doc.type \in {"text", "image", "control"}

HandlerOfType(type) ==
    CASE type = "text" -> "_handle_text_message"
      [] type = "image" -> "_handle_image_message"
      [] type = "control" -> "_handle_control_message"

\* Data that is not a well-formed envelope is passed to no handler: no turn
\* carries its number, no generation is requested and no call is made for
\* it. Data that is a well-formed envelope is passed, as it was sent, to the
\* one handler of its type.
C13_RejectedOrRouted ==
    \A i \in TaskIds :
        IF WellFormedEnvelope(inbound[i])
        THEN /\ tasks[i].message = inbound[i].doc
             /\ tasks[i].handler = HandlerOfType(inbound[i].doc.type)
        ELSE /\ tasks[i].handler = None
             /\ tasks[i].pc = "done"
             /\ tasks[i].exc \in {"none", "caught"}
             /\ tasks[i].response_text = None
             /\ \A p \in 1..Len(log) : log[p].msg # i
             /\ \A k \in 1..Len(conversation_history) :
                    conversation_history[k].msg # i

\* The step that receives data that is not a well-formed envelope changes
\* nothing but the record of the dropped data.
C13_RejectStep ==
    (Len(tasks') = Len(tasks) + 1 /\ ~WellFormedEnvelope(inbound'[Len(inbound')])) =>
        /\ session_config' = session_config
        /\ conversation_history' = conversation_history
        /\ performance_metrics' = performance_metrics
        /\ log' = log
        /\ \A i \in TaskIds : tasks'[i] = tasks[i]

\* C13: inbound data that is not a well-formed document, lacks one of the four
\* envelope fields or has a type outside text/image/control is dropped at
\* decode (history, config and metrics unchanged, no generation call, nothing
\* sent); data that decodes is routed to exactly one handler, chosen by type.
C13_DecodeRejectsOrRoutes ==
    []C13_RejectedOrRouted /\ [][C13_RejectStep]_vars

\* A text message has been answered, and data without a message_id has then
\* been dropped.
C13_Witness ==
    /\ Len(tasks) = 2
    /\ tasks[1].handler = "_handle_text_message"
    /\ Len(conversation_history) = 2
    /\ inbound[2].well_formed
    /\ DOMAIN inbound[2].doc = {"type", "payload", "timestamp"}
    /\ tasks[2].pc = "done"

----------------------------------------------------------------------------
(* C14: outbound envelopes *)

PublishEvents == {p \in 1..Len(log) : IsPublish(log[p])}

\* The message ids that arrived on inbound data, dropped data included.
InboundMessageIds ==
    {inbound[i].doc.message_id :
        i \in {j \in TaskIds : /\ inbound[j].well_formed
                               /\ "message_id" \in DOMAIN inbound[j].doc}}

InboundTimestamps ==
    {inbound[i].doc.timestamp :
        i \in {j \in TaskIds : /\ inbound[j].well_formed
                               /\ "timestamp" \in DOMAIN inbound[j].doc}}

\* C14: every outbound envelope carries a message_id and a timestamp of its
\* own making: no outbound message_id is the message_id of an inbound
\* message, and no two outbound messages share a message_id.
C14_OutboundIdsFresh ==
    \A p \in PublishEvents :
        /\ log[p].message_id \notin InboundMessageIds
        /\ log[p].timestamp \notin InboundTimestamps
        /\ \A q \in PublishEvents : q # p => log[q].message_id # log[p].message_id

\* The welcome message and the replies to two inbound messages have been sent.
C14_Witness ==
    /\ Cardinality(PublishEvents) = 3
    /\ Cardinality(InboundMessageIds) > 0
    /\ \E p \in PublishEvents : log[p].msg = 0
    /\ \E p \in PublishEvents : log[p].msg = 2

----------------------------------------------------------------------------
(* C15: generate_voice_response *)

\* The positions at which the delimiter ". " starts in s. Two occurrences
\* cannot overlap, so s splits into one segment more than there are positions.
DelimiterStarts(s) == {k \in 1..(Len(s) - 1) : s[k] = "." /\ s[k + 1] = " "}

\* The position at which the n-th delimiter of s starts.
NthDelimiter(s, n) ==
    CHOOSE k \in DelimiterStarts(s) :
        Cardinality({j \in DelimiterStarts(s) : j <= k}) = n

\* What the rule asks for: the reply itself, or its text up to the third
\* delimiter followed by the question.
ExpectedVoiceResponse(s) ==
    IF StrLen(s) > 500 /\ Cardinality(DelimiterStarts(s)) + 1 > 3
    THEN SubSeq(s, 1, NthDelimiter(s, 3) - 1) \o <<".", " ", "W">>
    ELSE s

\* C15: generate_voice_response returns the reply unmodified when it has at
\* most 500 characters or splits on ". " into at most 3 segments; otherwise
\* it returns the first 3 segments joined by ". " followed by ". Would you
\* like me to continue with more details?". Applying the rule to a reply
\* returned unmodified changes nothing.
C15_VoiceResponseRule ==
    ~IsNone(voice_response) =>
        /\ voice_response[1] = ExpectedVoiceResponse(reply_text)
        /\ voice_response[1] = reply_text
               => VoiceResponse(voice_response[1]) = voice_response[1]

\* A reply of more than 500 characters in more than 3 segments has been
\* shortened.
C15_Witness ==
    /\ ~IsNone(voice_response)
    /\ StrLen(reply_text) > 500
    /\ Len(Split(reply_text)) > 3
    /\ voice_response[1] # reply_text

\* A reply of exactly 500 characters in 4 segments has been returned as it is.
C15_WitnessAtLimit ==
    /\ ~IsNone(voice_response)
    /\ StrLen(reply_text) = 500
    /\ Len(Split(reply_text)) = 4
    /\ voice_response[1] = reply_text

----------------------------------------------------------------------------
(* C16: the reply is spoken in a voice session *)

IsSay(e) == e.ev = "say"

\* Every session transition received so far came before message i: the
\* session that is live now was live all the time message i was handled.
SessionSettledBefore(i) == \A j \in Transitions : j < i

\* The live session is a voice session.
LiveSessionIsVoice ==
    /\ Transitions # {}
    /\ IsStart(LastTransition)
    /\ RequestedConfig(tasks[LastTransition].message.payload).session_type
           \in {"voice-ptt", "voice-vad"}

\* Message i has been answered and its handler has returned without an error.
Replied(i) == Answered(i) /\ tasks[i].pc = "done" /\ tasks[i].exc = "none"

\* The reply to message i has been pushed to synthesis exactly once.
SpokenOnce(i) ==
    /\ Cardinality(EventsOf(i, IsSay)) = 1
    /\ \A p \in EventsOf(i, IsSay) : log[p].payload.content = tasks[i].response_text

\* C16: the reply to a text or image message is pushed to synthesis exactly
\* once when the live session is voice-ptt or voice-vad, and not at all when
\* it is a text session (or none).
C16_ReplySpokenOnceInVoiceSession ==
    \A i \in TaskIds :
        (Replied(i) /\ SessionSettledBefore(i)) =>
            IF LiveSessionIsVoice THEN SpokenOnce(i)
            ELSE EventsOf(i, IsSay) = {}

\* What the handlers do: the reply to a text message is spoken once in a voice
\* session, the reply to an image message never is.
C16_TextReplySpokenOnce ==
    \A i \in TaskIds :
        (Replied(i) /\ SessionSettledBefore(i)) =>
            IF LiveSessionIsVoice /\ tasks[i].message.type = "text"
            THEN SpokenOnce(i)
            ELSE EventsOf(i, IsSay) = {}

\* start_session(voice-vad), then one text message: one session_started
\* acknowledgment, two turns, one outbound text message, one say of the reply.
C16_VoiceTextScenario ==
    /\ Len(tasks) = 2
    /\ IsStart(1)
    /\ Replied(2)
    /\ tasks[2].message.type = "text"
    /\ Cardinality(EventsOf(1, IsAck)) = 1
    /\ Len(conversation_history) = 2
    /\ Cardinality(EventsOf(2, IsPublish)) = 1
    /\ SpokenOnce(2)

----------------------------------------------------------------------------
(* C17, C18: order and failures within one synthesis stream *)

StreamIds == 1..Len(tts_streams)

\* The segments pushed to stream s that are not blank.
Spoken(s) ==
    {k \in 1..Len(tts_streams[s].submitted) :
        tts_streams[s].submitted[k].text # " "}

\* The positions of the output queue of stream s that hold audio of segment k.
FramesOf(s, k) ==
    {a \in 1..Len(tts_streams[s].queue) : tts_streams[s].queue[a].seg = k}

\* C17: the audio units on the output queue of a stream are in the order in
\* which their text segments were pushed: no unit of a later segment stands
\* ahead of a unit of an earlier one, also when the earlier synthesis call is
\* the slower one.
C17_AudioInSubmissionOrder ==
    \A s \in StreamIds :
        LET queue == tts_streams[s].queue
        IN  /\ \A a, b \in 1..Len(queue) : a < b => queue[a].seg < queue[b].seg
            /\ \A a \in 1..Len(queue) :
                   queue[a].audio_of = tts_streams[s].submitted[queue[a].seg].text

\* Three segments pushed to one stream have all been emitted.
C17_Witness ==
    \E s \in StreamIds :
        /\ Cardinality(Spoken(s)) = 3
        /\ Len(tts_streams[s].queue) = 3

\* C18: a segment whose synthesis call failed has no audio unit on the queue
\* and its push_text has returned; every other segment that was synthesized,
\* the later ones included, has exactly its own unit there, in order.
C18_FailedSegmentSkipped ==
    \A s \in StreamIds :
        LET submitted == tts_streams[s].submitted
        IN  /\ \A k \in 1..Len(submitted) :
                   /\ submitted[k].status = "failed"
                          => [stream |-> s, seg |-> k] \notin synth_calls
                   /\ Cardinality(FramesOf(s, k)) =
                          (IF submitted[k].status = "emitted" THEN 1 ELSE 0)
            /\ \A a \in 1..Len(tts_streams[s].queue) :
                   /\ tts_streams[s].queue[a].audio_of # ""
                   /\ \A b \in 1..Len(tts_streams[s].queue) :
                          a < b => tts_streams[s].queue[a].seg
                                       < tts_streams[s].queue[b].seg

\* The synthesis of a segment failed and the two segments pushed after it
\* have been emitted.
C18_Witness ==
    \E s \in StreamIds :
        /\ Len(tts_streams[s].submitted) = 3
        /\ tts_streams[s].submitted[1].status = "failed"
        /\ tts_streams[s].submitted[2].status = "emitted"
        /\ tts_streams[s].submitted[3].status = "emitted"
        /\ Len(tts_streams[s].queue) = 2

----------------------------------------------------------------------------
(* C20: one synthesis stream per agent *)

\* The streams that are open: all that were handed out, none is ever closed.
OpenStreams == StreamIds

\* C20: at most one synthesis stream is open per agent.
C20_AtMostOneOpenStream == Cardinality(OpenStreams) <= 1

\* No two streams have both emitted audio.
C20_NeverBothEmit ==
    \A s, r \in StreamIds :
        (tts_streams[s].queue # <<>> /\ tts_streams[r].queue # <<>>) => s = r

----------------------------------------------------------------------------
(* C21: barge-in *)

\* The step in which the handler of speech_interrupted runs.
BargeInStep ==
    /\ voice_events' = voice_events + 1
    /\ voice_event' = "speech_interrupted"

CancelCalls(lg) == {p \in 1..Len(lg) : IsCancel(lg[p])}

\* C21: whenever a speech_interrupted (barge-in) event is delivered to the
\* agent, the handler of the event calls the voice assistant's cancel().
C21_BargeInCancels ==
    [][BargeInStep =>
          Cardinality(CancelCalls(log')) = Cardinality(CancelCalls(log)) + 1]_vars

----------------------------------------------------------------------------
(* C22: cancellation and replies in flight *)

\* The cancel() made for message j has returned without an error. (end_session
\* swallows an error of cancel: for it, returned is all that can be told.)
CancelCompleted(j) ==
    /\ EventsOf(j, IsCancel) # {}
    /\ tasks[j].pc # "cancel"
    /\ EventsOf(j, IsErrorLog) = {}

\* This step hands the reply of message i to voice_assistant.say.
SayStepOf(i) ==
    \E p \in Len(log) + 1..Len(log') : IsSay(log'[p]) /\ log'[p].msg = i

\* C22: once a cancellation triggered by interrupt or end_session has
\* completed, no reply to a message received before that cancellation is
\* spoken any more, also when its generation was in flight during the cancel.
C22_NoSpeechAfterCancel ==
    [][\A i \in TaskIds :
          SayStepOf(i) => ~ \E j \in TaskIds : j > i /\ CancelCompleted(j)]_vars

----------------------------------------------------------------------------
(* C23: teardown *)

\* C23: cleanup always runs to its end without raising: even when stopping the
\* voice path fails, the conversation history is emptied (the data channel
\* reference is None at all times).
C23_CleanupAlwaysCompletes ==
    [][cleanup' # cleanup /\ cleanup' # "stop" =>
          cleanup' = "done" /\ conversation_history' = <<>>]_vars

----------------------------------------------------------------------------
(* C24: the telemetry snapshot *)

Range(values) == {values[k] : k \in 1..Len(values)}

\* The sum of the first n samples.
RECURSIVE TotalUpTo(_, _)
TotalUpTo(values, n) ==
    IF n = 0 THEN 0 ELSE TotalUpTo(values, n - 1) + values[n]

\* snapshot reports, for every metric name, the statistics of all the samples
\* in metrics; the mean is compared without dividing.
SnapshotMatches(snapshot, metrics) ==
    /\ DOMAIN snapshot = MetricNames
    /\ \A name \in MetricNames :
           LET values == metrics[name]
               entry == snapshot[name]
           IN  /\ entry.count = Len(values)
               /\ entry.avg.den > 0
               /\ values = <<>> =>
                      entry.avg.num = 0 /\ entry.min = 0 /\ entry.max = 0
               /\ values # <<>> =>
                      /\ entry.min \in Range(values)
                      /\ \A v \in Range(values) : entry.min <= v
                      /\ entry.max \in Range(values)
                      /\ \A v \in Range(values) : v <= entry.max
                      /\ entry.avg.num * Len(values)
                             = TotalUpTo(values, Len(values)) * entry.avg.den

\* C24: the snapshot reports for every metric name count = the number of
\* samples recorded so far, min and max = the smallest and the largest sample,
\* avg = the mean of all samples, and count = 0, avg = 0, min = 0, max = 0 for a
\* metric without samples (no division by zero).
C24_SnapshotOverAllSamples ==
    [][IsNone(stats) /\ ~IsNone(stats') =>
          SnapshotMatches(stats'[1], performance_metrics)]_vars

\* A snapshot of a metric with two different samples and of an empty metric.
C24_Witness ==
    /\ ~IsNone(stats)
    /\ stats[1].total_roundtrip.count >= 2
    /\ stats[1].total_roundtrip.min < stats[1].total_roundtrip.max
    /\ stats[1].tts_latency.count = 0

----------------------------------------------------------------------------
(* C25, C26: the handlers of agent_started_speaking and agent_stopped_speaking *)

AgentStartedStep ==
    /\ voice_events' = voice_events + 1
    /\ voice_event' = "agent_started_speaking"

AgentStoppedStep ==
    /\ voice_events' = voice_events + 1
    /\ voice_event' = "agent_stopped_speaking"

\* now minus turn start in milliseconds, now being the time the handler read.
TurnLatency == (clock' - speech_start_time[1]) * TickMs

\* C25: an agent_started_speaking or agent_stopped_speaking event delivered
\* while no turn start is recorded appends no sample and raises no alert (the
\* handler ends normally); with a turn start, agent_started_speaking appends
\* exactly one sample, to stt_latency.
C25_OutOfOrderEventSkipped ==
    [][/\ (AgentStartedStep \/ AgentStoppedStep) /\ ~HasSpeechStart =>
              UNCHANGED <<performance_metrics, warnings, speech_start_time>>
       /\ AgentStartedStep /\ HasSpeechStart =>
              /\ performance_metrics' =
                     [performance_metrics EXCEPT
                         !.stt_latency = Append(@, TurnLatency)]
              /\ UNCHANGED warnings]_vars

\* An agent event was delivered out of order and left the metrics empty.
C25_Witness ==
    /\ voice_event \in {"agent_started_speaking", "agent_stopped_speaking"}
    /\ ~HasSpeechStart
    /\ \A name \in MetricNames : performance_metrics[name] = <<>>
    /\ warnings = <<>>

\* C26: agent_stopped_speaking with a turn start appends exactly one sample,
\* now minus turn start, to total_roundtrip; an alert is raised if and only if
\* the sample is strictly greater than 500; session config, history and
\* synthesis state stay as they are.
C26_AlertIffAboveTarget ==
    [][AgentStoppedStep /\ HasSpeechStart =>
          /\ performance_metrics' =
                 [performance_metrics EXCEPT
                     !.total_roundtrip = Append(@, TurnLatency)]
          /\ warnings' = IF TurnLatency > 500
                         THEN Append(warnings, TurnLatency)
                         ELSE warnings
          /\ UNCHANGED <<session_config, conversation_history, synthesisVars>>]_vars

\* A round trip of exactly 500 ms was recorded and raised no alert.
C26_Witness ==
    /\ voice_event = "agent_stopped_speaking"
    /\ performance_metrics.total_roundtrip # <<>>
    /\ performance_metrics.total_roundtrip
           [Len(performance_metrics.total_roundtrip)] = 500
    /\ \A k \in 1..Len(warnings) : warnings[k] # 500

----------------------------------------------------------------------------
(* C27, C28, C29: the recognition session *)

\* The requests of the frames pushed that carry audio, in push order.
PushedAudio ==
    LET audio == SelectSeq(stt_pushed, LAMBDA data : data # <<>>)
    IN  [k \in 1..Len(audio) |-> <<audio[k]>>]

IsPrefix(s, t) == Len(s) <= Len(t) /\ SubSeq(t, 1, Len(s)) = s

IsFinalWithAlternative(response) ==
    /\ response.results # <<>>
    /\ response.results[1].is_final
    /\ Len(response.results[1].alternatives) >= 1

\* The events of the final responses among responses, in the order received.
RECURSIVE FinalEvents(_)
FinalEvents(responses) ==
    IF responses = <<>> THEN <<>>
    ELSE (IF IsFinalWithAlternative(Head(responses))
          THEN <<[type |-> "FINAL_TRANSCRIPT",
                  text |-> Head(responses).results[1].alternatives[1]]>>
          ELSE <<>>) \o FinalEvents(Tail(responses))

\* C27: the consumer feeds the audio chunks to the recognition capability in
\* exactly the order they were pushed, and of the responses of the capability
\* only the final ones with an alternative are surfaced, in the order received.
C27_FedInPushOrderOnlyFinalSurfaced ==
    /\ IsPrefix(Fed, PushedAudio)
    /\ stt_queue = FinalEvents(stt_responses)

\* Two chunks were fed, an interim result was read and a final one surfaced.
C27_Witness ==
    /\ Len(Fed) >= 2
    /\ \E k \in 1..Len(stt_responses) :
           /\ stt_responses[k].results # <<>>
           /\ ~stt_responses[k].results[1].is_final
    /\ stt_queue # <<>>

\* The sentinel has been put on the requests queue.
SentinelEnqueued ==
    \/ \E k \in 1..Len(requests_queue) : requests_queue[k] = <<>>
    \/ \E k \in 1..Len(stt_taken) : stt_taken[k] = <<>>

\* Sentinel before the wait, the end of the task before the release; a session
\* closed without audio has surfaced nothing and raised nothing.
C28_CloseOrder ==
    /\ stt_session \in {"closing", "closed", "raised"} => SentinelEnqueued
    /\ stt_session = "closed" => stt_task = "done"
    /\ PushedAudio = <<>> => stt_session # "raised"
    /\ stt_session = "closed" /\ PushedAudio = <<>> => stt_queue = <<>>

C29_FailureContained ==
    /\ ~IsNone(transcript) /\ transcript[1].raised => transcript[1].text = ""
    /\ stt_stream = "failed" => stt_task = "done"
    /\ stt_session # "raised"

----------------------------------------------------------------------------
(* C30: messages without content *)

\* The payload has no value for key, or an empty one.
MissingOrEmpty(payload, key) ==
    key \notin DOMAIN payload \/ payload[key] = ""

NothingToAnswer(m) ==
    \/ m.type = "text" /\ MissingOrEmpty(m.payload, "content")
    \/ m.type = "image" /\ MissingOrEmpty(m.payload, "data")

\* C30: a text message whose content is missing or empty and an image message
\* whose data is missing or empty are ignored silently: the handler returns at
\* once without an exception, no turn is appended to the history, no
\* generation is requested, nothing is sent and nothing is spoken.
C30_EmptyMessageIgnored ==
    \A i \in TaskIds :
        NothingToAnswer(tasks[i].message) =>
            /\ tasks[i].pc = "done"
            /\ tasks[i].exc = "none"
            /\ tasks[i].response_text = None
            /\ \A p \in 1..Len(log) : log[p].msg # i
            /\ \A k \in 1..Len(conversation_history) :
                   conversation_history[k].msg # i

\* An empty text message and an image message without data have been handled.
C30_Witness ==
    \E i, j \in TaskIds :
        /\ tasks[i].message.type = "text"
        /\ tasks[j].message.type = "image"
        /\ NothingToAnswer(tasks[i].message)
        /\ NothingToAnswer(tasks[j].message)

----------------------------------------------------------------------------
(* C31: the history over the life of the agent *)

\* This step is a step of cleanup.
CleanupStep == cleanup' # cleanup

\* This step empties the history at the end of cleanup.
ClearStep ==
    /\ cleanup # "done"
    /\ cleanup' = "done"
    /\ conversation_history' = <<>>

\* C31: the conversation history is append-only: every step of every handler
\* (text, image, control, malformed message, voice event, in any interleaving
\* of concurrent handlers) leaves the history that existed as a prefix of the
\* new one; only the end of cleanup empties it; and cleanup leaves the session
\* config and the latency metrics as they were.
C31_HistoryAppendOnly ==
    [][/\ ClearStep \/ IsPrefix(conversation_history, conversation_history')
       /\ CleanupStep =>
              /\ session_config' = session_config
              /\ performance_metrics' = performance_metrics
              /\ speech_start_time' = speech_start_time
              /\ warnings' = warnings]_vars

\* A voice session was started and a text message answered to its end, the
\* voice assistant measured a latency, and cleanup then emptied the two turns:
\* the session config and the sample are still there.
C31_Witness ==
    /\ cleanup = "done"
    /\ conversation_history = <<>>
    /\ \E i \in TaskIds : Answered(i) /\ tasks[i].pc = "done"
    /\ ~IsNone(session_config)
    /\ performance_metrics.stt_latency # <<>>

----------------------------------------------------------------------------
(* C32: an agent started in an empty room *)

\* The welcome message of _connect_to_participant.
IsWelcome(e) == IsPublish(e) /\ e.msg = 0

\* start has run and found no remote participant in the room: it bound none
\* and sent no welcome message.
StartedAlone == started /\ \A p \in PublishEvents : ~IsWelcome(log[p])

\* C32: the remote participant is bound during start only. When the room held
\* no remote participant at that moment, none is bound later and nothing
\* (welcome, text reply, acknowledgment) is ever published; inbound messages
\* are still passed to their handlers, which return without error from every
\* send, the turns are still appended to the history, and the session
\* transitions are still applied to the session config.
C32_NeverPublishesWhenStartedAlone ==
    StartedAlone =>
        /\ ~participant
        /\ PublishEvents = {}
        /\ \A i \in TaskIds :
               /\ tasks[i].pc # "send"
               /\ WellFormedEnvelope(inbound[i]) =>
                      tasks[i].handler = HandlerOfType(inbound[i].doc.type)
               /\ Answered(i) =>
                      /\ HasTurn(UserTurnOf(i))
                      /\ tasks[i].pc # "gen" => HasTurn(AgentTurnOf(i))
               /\ (IsStart(i) \/ IsEnd(i)) /\ tasks[i].pc = "done" =>
                      tasks[i].exc = "none"
        /\ IF Transitions = {} \/ IsEnd(LastTransition)
           THEN session_config = <<>>
           ELSE session_config =
                    <<RequestedConfig(tasks[LastTransition].message.payload)>>

\* In an empty room a voice session was started and a text message answered:
\* the session is live, both turns are in the history and the reply was handed
\* to the voice assistant, but nothing was published.
C32_Witness ==
    /\ StartedAlone
    /\ Len(tasks) = 2
    /\ IsStart(1)
    /\ tasks[1].pc = "done"
    /\ ~IsNone(session_config)
    /\ session_config[1].session_type = "voice-vad"
    /\ tasks[2].message.type = "text"
    /\ Replied(2)
    /\ conversation_history = <<UserTurnOf(2), AgentTurnOf(2)>>
    /\ SpokenOnce(2)
    /\ PublishEvents = {}

----------------------------------------------------------------------------
(* C33: the session that decides whether a reply is spoken *)

\* The session config that is live is a voice session.
LiveVoiceSession ==
    /\ session_config # <<>>
    /\ session_config[1].session_type \in {"voice-ptt", "voice-vad"}

\* This step takes the handler of text message i past its outbound send: the
\* publish returns without error, or generation returns and the send is
\* skipped because no participant is bound.
SendCompletedStep(i) ==
    /\ tasks[i].message.type = "text"
    /\ \/ tasks[i].pc = "send" /\ tasks'[i].pc # "send" /\ tasks'[i].exc = "none"
       \/ tasks[i].pc = "gen" /\ tasks'[i].pc \notin {"gen", "send"}

\* The last session transition received after message i, if any, while the
\* handler of i has not come past its send.
OvertakenBy(i, j) ==
    /\ j > i
    /\ IsStart(j) \/ IsEnd(j)
    /\ \A k \in Transitions : k <= j

\* C33: a text reply is handed to say() in the step that completes its
\* outbound send and in no other, and exactly when the session config live in
\* that step is a voice session, whatever was live when the message arrived:
\* overtaken by an end_session the reply is not spoken, overtaken by a
\* start_session of a voice session it is.
C33_SpokenByLiveConfig ==
    [][\A i \in TaskIds :
          /\ SayStepOf(i) => SendCompletedStep(i)
          /\ SendCompletedStep(i) =>
                 /\ SayStepOf(i) <=> LiveVoiceSession
                 /\ \A j \in TaskIds :
                        OvertakenBy(i, j) =>
                            IF IsEnd(j) THEN ~SayStepOf(i)
                            ELSE SayStepOf(i) <=>
                                     RequestedConfig(tasks[j].message.payload).session_type
                                         \in {"voice-ptt", "voice-vad"}]_vars

\* The session that was live when the first message arrived was a voice
\* session.
ArrivedInVoiceSession ==
    \E p \in EventsOf(0, IsConfigWrite) : log[p].type \in {"voice-ptt", "voice-vad"}

\* A text message arrived in a text session (or in none); a start_session of a
\* voice session was handled while its reply was in flight; the reply was
\* spoken.
C33_Witness ==
    /\ Len(tasks) = 2
    /\ ~ArrivedInVoiceSession
    /\ tasks[1].message.type = "text"
    /\ IsStart(2)
    /\ LiveVoiceSession
    /\ Replied(1)
    /\ SpokenOnce(1)
    /\ \E p \in EventsOf(1, IsSay) : \E q \in EventsOf(2, IsConfigWrite) : q < p

\* A text message arrived in a voice session; an end_session was handled while
\* its reply was in flight; the reply was not spoken.
C33_WitnessEndSession ==
    /\ Len(tasks) = 2
    /\ ArrivedInVoiceSession
    /\ tasks[1].message.type = "text"
    /\ IsEnd(2)
    /\ Replied(1)
    /\ EventsOf(1, IsSay) = {}
    /\ \E p \in EventsOf(1, IsPublish) : \E q \in EventsOf(2, IsConfigWrite) : q < p

----------------------------------------------------------------------------
(* C34: the reply of a voice session when the outbound send fails or is skipped *)

\* This step is the failure of the publish of text message i: publish_data
\* raises while the handler waits for it.
PublishFailsStep(i) ==
    /\ tasks[i].message.type = "text"
    /\ tasks[i].pc = "send"
    /\ tasks'[i].exc # "none"

\* This step is the return of the generation of text message i when no
\* participant is bound.
SendSkippedStep(i) ==
    /\ tasks[i].message.type = "text"
    /\ tasks[i].pc = "gen"
    /\ tasks'[i].pc # "gen"
    /\ ~participant

\* C34: in a voice session, when the publish of the text reply fails, the
\* reply is not handed to say() (then or later), the exception is caught in
\* _handle_data_message and ends the handler, and the two turns of the
\* exchange stay in the history; when no participant is bound, the send is
\* skipped without an error, nothing is published, and the reply is handed to
\* say() in the same step.
C34_SendFailureSkipsSpeech ==
    [][\A i \in TaskIds :
          /\ PublishFailsStep(i) =>
                 /\ ~SayStepOf(i)
                 /\ tasks'[i].pc = "done"
                 /\ tasks'[i].exc = "caught"
                 /\ log' = log
                 /\ conversation_history' = conversation_history
                 /\ \E k, l \in TurnsOf(i) :
                        /\ k < l
                        /\ conversation_history[k] = UserTurnOf(i)
                        /\ conversation_history[l] = AgentTurnOf(i)
          /\ (tasks[i].pc = "done" /\ tasks[i].exc = "caught") => ~SayStepOf(i)
          /\ (SendSkippedStep(i) /\ LiveVoiceSession) =>
                 /\ SayStepOf(i)
                 /\ tasks'[i].pc = "say"
                 /\ tasks'[i].exc = "none"
                 /\ \A p \in Len(log) + 1..Len(log') : ~IsPublish(log'[p])]_vars

\* In a voice session the publish of a text reply failed: the handler ended
\* with the exception caught, the reply was published to nobody and never
\* spoken, and both turns are in the history.
C34_Witness ==
    /\ participant
    /\ LiveVoiceSession
    /\ \E i \in TaskIds :
           /\ tasks[i].message.type = "text"
           /\ tasks[i].pc = "done"
           /\ tasks[i].exc = "caught"
           /\ EventsOf(i, IsPublish) # {}
           /\ EventsOf(i, IsSay) = {}
           /\ HasTurn(UserTurnOf(i))
           /\ HasTurn(AgentTurnOf(i))
           /\ \A j \in Transitions : j < i

\* In a voice session with no participant bound a text message was answered:
\* nothing was published and the reply was spoken.
C34_WitnessNoParticipant ==
    /\ ~participant
    /\ LiveVoiceSession
    /\ \E i \in TaskIds :
           /\ tasks[i].message.type = "text"
           /\ Replied(i)
           /\ EventsOf(i, IsPublish) = {}
           /\ SpokenOnce(i)
           /\ \A j \in Transitions : j < i

====
